---- MODULE Spec2Model ----
(***************************************************************************)
(* A model of the governant policy client: the result normalizer and the   *)
(* entrypoint normalizer of opawasm.main, the GitHub event handler of      *)
(* ghprotect.handler, and the backends, Policy Handle and Policy Registry  *)
(* of governant.core.                                                      *)
(*                                                                         *)
(* JSON values are tagged records, so that Python's isinstance tests are   *)
(* tests of the tag; Python strings that the code inspects (entrypoints)   *)
(* are sequences of one-character strings.  An outcome of a call is        *)
(* [kind, val]: kind "ok" with the returned value, or the name of the      *)
(* exception class that left the call.                                     *)
(***************************************************************************)
EXTENDS Integers, Sequences, FiniteSets, TLC

VARIABLES engines, disk, frame, arg, ret

vars == <<engines, disk, frame, arg, ret>>

(***************************************************************************)
(* Bounds of the model.                                                    *)
(***************************************************************************)
\* longest raw result list the normalizer is given
MaxList == 3
\* longest tail of an entrypoint string after its prefix
MaxTail == 5
\* temporary file names the file system can hand out
MaxTmp == 4
\* most records in an index file
MaxIndex == 2
\* pointers the module's allocator can hand out
MaxPtr == 4

(***************************************************************************)
(* JSON values (Python: None, bool, int, str, list, dict).                 *)
(***************************************************************************)
JNull == [t |-> "null"]

JBool(b) == [t |-> "bool", v |-> b]

JNum(n) == [t |-> "num", v |-> n]

JStr(s) == [t |-> "str", v |-> s]

JList(s) == [t |-> "list", v |-> s]

JDict(f) == [t |-> "dict", v |-> f]

EmptyDict == JDict(<<>>)

IsBool(x) == x.t = "bool"

IsList(x) == x.t = "list"

IsDict(x) == x.t = "dict"

HasKey(d, k) == k \in DOMAIN d.v

\* Python's bool(x)
Truthy(x) ==
    CASE x.t = "null" -> FALSE
      [] x.t = "bool" -> x.v
      [] x.t = "num"  -> x.v # 0
      [] x.t = "str"  -> x.v # ""
      [] x.t = "list" -> Len(x.v) > 0
      [] x.t = "dict" -> DOMAIN x.v # {}

Ok(v) == [kind |-> "ok", val |-> v]

Raise(cls, msg) == [kind |-> cls, val |-> msg]

\* All sequences over S of length at most n
SeqsUpTo(S, n) == UNION {[1..k -> S] : k \in 0..n}

(***************************************************************************)
(* The raw results a backend can hand to the normalizer: scalars, lists    *)
(* whose first element is any of the wrapper shapes of the engine          *)
(* ({"result": x}, {"expressions": [{"value": x}]}, both, neither), and    *)
(* mappings with and without a "result" key.                               *)
(***************************************************************************)
\* longest "expressions" list inside a wrapper
MaxInner == 1

Atoms == {JNull, JBool(TRUE), JBool(FALSE), JNum(0), JStr("v")}

ExprEntries ==
    {EmptyDict, JStr("v")} \cup {JDict("value" :> a) : a \in Atoms}

ExprsVals ==
    {JNull} \cup {JList(s) : s \in SeqsUpTo(ExprEntries, MaxInner)}

ResultParts == {<<>>} \cup {("result" :> a) : a \in Atoms}

ExprParts == {<<>>} \cup {("expressions" :> e) : e \in ExprsVals}

Items == {JDict(r @@ e) : r \in ResultParts, e \in ExprParts}

Heads == Items \cup Atoms

ListRaws ==
    {JList(<<>>)} \cup
    {JList(<<h>> \o tl) : h \in Heads, tl \in SeqsUpTo(Atoms, MaxList - 1)}

DictRaws ==
    {EmptyDict, JDict("other" :> JNum(0))} \cup
    {JDict("result" :> x) :
        x \in Atoms \cup {JList(<<>>), JList(<<JStr("v"), JNum(0)>>),
                          JDict("result" :> JList(<<JStr("v")>>))}}

RawValues == Atoms \cup ListRaws \cup DictRaws

(***************************************************************************)
(* opawasm.main: the result normalizer                                     *)
(***************************************************************************)
\* EvalResult.as_bool with the isinstance guard on exprs[0] dropped: calling
\* .get on a value that is no mapping raises AttributeError
as_bool_unguarded(v) ==
    IF IsBool(v) THEN Ok(v.v)
    ELSE IF IsList(v) /\ Len(v.v) > 0 /\ IsDict(v.v[1])
         THEN LET item == v.v[1] IN
              IF HasKey(item, "result") /\ IsBool(item.v["result"])
              THEN Ok(item.v["result"].v)
              ELSE LET exprs == IF HasKey(item, "expressions")
                                THEN item.v["expressions"] ELSE JNull IN
                   IF IsList(exprs) /\ Len(exprs.v) > 0
                   THEN IF ~IsDict(exprs.v[1])
                        THEN Raise("AttributeError", "get")
                        ELSE LET val == IF HasKey(exprs.v[1], "value")
                                        THEN exprs.v[1].v["value"] ELSE JNull IN
                             IF IsBool(val) THEN Ok(val.v) ELSE Ok(Truthy(v))
                   ELSE Ok(Truthy(v))
         ELSE Ok(Truthy(v))

\* EvalResult.as_bool
as_bool(v) ==
    IF IsBool(v) THEN Ok(v.v)
    ELSE IF IsList(v) /\ Len(v.v) > 0 /\ IsDict(v.v[1])
         THEN LET item == v.v[1] IN
              IF HasKey(item, "result") /\ IsBool(item.v["result"])
              THEN Ok(item.v["result"].v)
              ELSE LET exprs == IF HasKey(item, "expressions")
                                THEN item.v["expressions"] ELSE JNull IN
                   IF IsList(exprs) /\ Len(exprs.v) > 0 /\ IsDict(exprs.v[1])
                   THEN LET val == IF HasKey(exprs.v[1], "value")
                                   THEN exprs.v[1].v["value"] ELSE JNull IN
                        IF IsBool(val) THEN Ok(val.v) ELSE Ok(Truthy(v))
                   ELSE Ok(Truthy(v))
         ELSE Ok(Truthy(v))

\* EvalResult.as_list: the Python list it returns, as a sequence
as_list(raw) == IF IsList(raw) THEN raw.v ELSE <<raw>>

NoCall == [op |-> "none"]

(***************************************************************************)
(* opawasm.main: entrypoints.  A Python string is the sequence of its      *)
(* characters.                                                             *)
(***************************************************************************)
DataDot == <<"d", "a", "t", "a", ".">>

StartsWith(s, p) == Len(s) >= Len(p) /\ SubSeq(s, 1, Len(p)) = p

Contains(s, c) == \E i \in 1..Len(s) : s[i] = c

\* str.replace(a, b) for one-character a and b
Replace(s, a, b) == [i \in 1..Len(s) |-> IF s[i] = a THEN b ELSE s[i]]

\* _norm_entry without its first test: the prefix is added to every string
norm_entry_always_prefix(entry) ==
    IF Contains(entry, "/")
    THEN DataDot \o Replace(entry, "/", ".")
    ELSE DataDot \o entry

\* _norm_entry
norm_entry(entry) ==
    IF StartsWith(entry, DataDot) THEN entry
    ELSE IF Contains(entry, "/")
         THEN DataDot \o Replace(entry, "/", ".")
         ELSE DataDot \o entry

\* "data.github.deploy.allow" and "data.github.deploy.violations"
GithubDeploy ==
    DataDot \o <<"g", "i", "t", "h", "u", "b", ".", "d", "e", "p", "l", "o", "y", ".">>

AllowEntry == GithubDeploy \o <<"a", "l", "l", "o", "w">>

ViolationsEntry ==
    GithubDeploy \o <<"v", "i", "o", "l", "a", "t", "i", "o", "n", "s">>

(***************************************************************************)
(* opawasm.main.PolicyEngine.  The loaded runtime is outside the           *)
(* repository: a call of its evaluate returns a raw value, raises          *)
(* TypeError when the build takes the reversed signature (and is then      *)
(* called again that way), or raises an error of its own.                  *)
(***************************************************************************)
RuntimeKinds == {"new", "old", "error", "old_error"}

\* PolicyEngine.evaluate: handed is what each call of the runtime was given
MainEvaluate(entrypoint, rt, raw) ==
    LET ep == norm_entry(entrypoint) IN
    CASE rt = "new"       -> [handed |-> <<ep>>, out |-> Ok(raw)]
      [] rt = "old"       -> [handed |-> <<ep, ep>>, out |-> Ok(raw)]
      [] rt = "error"     -> [handed |-> <<ep>>, out |-> Raise("RuntimeError", "eval")]
      [] rt = "old_error" -> [handed |-> <<ep, ep>>, out |-> Raise("RuntimeError", "eval")]

\* PolicyEngine.allow
MainAllow(rt, raw) ==
    LET r == MainEvaluate(AllowEntry, rt, raw) IN
    [handed |-> r.handed,
     out |-> IF r.out.kind = "ok" THEN as_bool(r.out.val) ELSE r.out]

\* PolicyEngine.violations
MainViolations(rt, raw) ==
    LET r == MainEvaluate(ViolationsEntry, rt, raw) IN
    [handed |-> r.handed,
     out |-> IF r.out.kind = "ok"
             THEN Ok(IF IsList(r.out.val) THEN r.out.val.v ELSE <<r.out.val>>)
             ELSE r.out]

(***************************************************************************)
(* SpecNorm: the normalizer and the engine's helpers applied to every raw  *)
(* result.                                                                 *)
(***************************************************************************)
InitNorm ==
    /\ arg \in RawValues
    /\ ret = NoCall
    /\ engines = <<>>
    /\ disk = {}
    /\ frame = NoCall

AsBool ==
    /\ ret' = [op |-> "as_bool", out |-> as_bool(arg)]
    /\ UNCHANGED <<engines, disk, frame, arg>>

AsList ==
    /\ ret' = [op |-> "as_list", out |-> Ok(as_list(arg))]
    /\ UNCHANGED <<engines, disk, frame, arg>>

MainAllowCall ==
    /\ \E rt \in RuntimeKinds :
          ret' = [op |-> "main_allow", rt |-> rt] @@ MainAllow(rt, arg)
    /\ UNCHANGED <<engines, disk, frame, arg>>

MainViolationsCall ==
    /\ \E rt \in RuntimeKinds :
          ret' = [op |-> "main_violations", rt |-> rt] @@ MainViolations(rt, arg)
    /\ UNCHANGED <<engines, disk, frame, arg>>

NextNorm == AsBool \/ AsList \/ MainAllowCall \/ MainViolationsCall

SpecNorm == InitNorm /\ [][NextNorm]_vars

(***************************************************************************)
(* SpecEntry: entrypoint strings in every mix of prefix, dots and slashes. *)
(***************************************************************************)
EntryPrefixes ==
    {<<>>, DataDot, <<"d", "a", "t", "a">>, <<"d", "a", "t", "a", "/">>}

EntryChars == {"a", "b", "c", ".", "/"}

Entries == {p \o s : p \in EntryPrefixes, s \in SeqsUpTo(EntryChars, MaxTail)}

InitEntry ==
    /\ arg \in Entries
    /\ ret = NoCall
    /\ engines = <<>>
    /\ disk = {}
    /\ frame = NoCall

NormEntry ==
    /\ ret' = [op |-> "norm_entry", out |-> norm_entry(arg)]
    /\ UNCHANGED <<engines, disk, frame, arg>>

MainEvaluateCall ==
    /\ \E rt \in RuntimeKinds, raw \in {JBool(TRUE), JList(<<>>)} :
          ret' = [op |-> "main_evaluate", rt |-> rt] @@ MainEvaluate(arg, rt, raw)
    /\ UNCHANGED <<engines, disk, frame, arg>>

NextEntry == NormEntry \/ MainEvaluateCall

SpecEntry == InitEntry /\ [][NextEntry]_vars

(***************************************************************************)
(* Claims about the normalizers.                                           *)
(***************************************************************************)
FirstIsMapping(raw) == IsList(raw) /\ Len(raw.v) > 0 /\ IsDict(raw.v[1])

HasBoolResult(raw) ==
    /\ FirstIsMapping(raw)
    /\ HasKey(raw.v[1], "result")
    /\ IsBool(raw.v[1].v["result"])

HasBoolExprValue(raw) ==
    /\ FirstIsMapping(raw)
    /\ HasKey(raw.v[1], "expressions")
    /\ LET exprs == raw.v[1].v["expressions"] IN
       /\ IsList(exprs)
       /\ Len(exprs.v) > 0
       /\ IsDict(exprs.v[1])
       /\ HasKey(exprs.v[1], "value")
       /\ IsBool(exprs.v[1].v["value"])

\* C6: to_boolean (EvalResult.as_bool) never raises; it returns a boolean raw
\* as it is, else the boolean "result" of the first element, else the boolean
\* "value" of the first entry of that element's "expressions", else the
\* truthiness of raw.
C6_ToBooleanLayers ==
    ret.op = "as_bool" =>
        /\ ret.out.kind = "ok"
        /\ ret.out.val =
              IF IsBool(arg) THEN arg.v
              ELSE IF HasBoolResult(arg) THEN arg.v[1].v["result"].v
              ELSE IF HasBoolExprValue(arg)
                   THEN arg.v[1].v["expressions"].v[1].v["value"].v
                   ELSE Truthy(arg)

\* C6 witness: a false wrapped in "expressions" beside a "result" that is no
\* boolean was normalized to false, though the list itself is truthy.
C6_Witness ==
    /\ ret.op = "as_bool"
    /\ arg = JList(<<JDict(("result" :> JNull) @@
                           ("expressions" :> JList(<<JDict("value" :> JBool(FALSE))>>)))>>)
    /\ ret.out = Ok(FALSE)

\* C8: _norm_entry is idempotent, and "a/b/c" and "a.b.c" both normalize to
\* "data.a.b.c".
C8_NormIdempotent ==
    ret.op = "norm_entry" =>
        /\ norm_entry(ret.out) = ret.out
        /\ arg \in {<<"a", "/", "b", "/", "c">>, <<"a", ".", "b", ".", "c">>}
              => ret.out = DataDot \o <<"a", ".", "b", ".", "c">>

\* C8 witness: the slash form was normalized.
C8_Witness ==
    /\ ret.op = "norm_entry"
    /\ arg = <<"a", "/", "b", "/", "c">>
    /\ ret.out = <<"d", "a", "t", "a", ".", "a", ".", "b", ".", "c">>

\* C9: the string handed to the backend starts with "data." and holds no "/".
C9_CanonicalHanded ==
    ret.op = "main_evaluate" =>
        \A i \in 1..Len(ret.handed) :
            StartsWith(ret.handed[i], DataDot) /\ ~Contains(ret.handed[i], "/")

(***************************************************************************)
(* governant.core: artifacts, the file system and the external tool.       *)
(*                                                                         *)
(* An artifact path is [stem, ext]; path.endswith(".wasm") reads ext.      *)
(* disk is the set of temporary files that exist, named by the numbers     *)
(* 1..MaxTmp; tempfile.mkstemp creates a file under a name that does not   *)
(* exist.  What one call meets outside the program is its io record: the   *)
(* outcome of tarfile, the subprocess's exit code, stdout and stderr, and  *)
(* whether each os.remove succeeds.  The input document matters to the     *)
(* model only through json.dump accepting it or not.                       *)
(***************************************************************************)
WasmArtifact == [stem |-> "policy", ext |-> ".wasm"]

BundleArtifact == [stem |-> "bundle", ext |-> ".tar.gz"]

Artifacts == {WasmArtifact, BundleArtifact}

EndsWithWasm(artifact) == artifact.ext = ".wasm"

Docs == {"doc", "unserializable"}

\* A temporary file under one fixed name
MkStemp_fixed_name(d) == 1

\* tempfile.mkstemp: the name of the file it creates
MkStemp(d) == CHOOSE n \in (1..MaxTmp) \ d : \A m \in (1..MaxTmp) \ d : n <= m

CanMkStemp(d, k) == Cardinality((1..MaxTmp) \ d) >= k

\* The standard output of "opa eval": its text and what json.loads makes of it
\* (kind "ok" with the document, or the ValueError it raises).
Out(text, parsed) == [text |-> text, parsed |-> parsed]

OpaResult(v) ==
    JDict("result" :> JList(<<JDict("expressions" :> JList(<<JDict("value" :> v)>>))>>))

\* The values of a query, by the name the model gives the text that holds them
OpaValues ==
    [null |-> JNull, true |-> JBool(TRUE), false |-> JBool(FALSE),
     string |-> JStr("v"), empty |-> JList(<<>>),
     list |-> JList(<<JStr("v"), JNum(0)>>)]

EmptyOut == Out("", Raise("ValueError", "json"))

GarbageOut == Out("garbage", Raise("ValueError", "json"))

ErrorsOut ==
    Out("{errors}", Ok(JDict("errors" :> JList(<<JDict("message" :> JStr("m"))>>))))

UndefinedOut == Out("{}", Ok(EmptyDict))

ZeroStdouts ==
    {EmptyOut, GarbageOut, UndefinedOut, ErrorsOut,
     Out("bare true", Ok(JBool(TRUE))),
     Out("{result:true}", Ok(JDict("result" :> JBool(TRUE)))),
     Out("{result:[]}", Ok(JDict("result" :> JList(<<>>))))}
    \cup {Out(n, Ok(OpaResult(OpaValues[n]))) : n \in DOMAIN OpaValues}

NonZeroStdouts == {EmptyOut, GarbageOut, UndefinedOut, ErrorsOut}

BaseIO ==
    [wrap |-> "ok", rc |-> 0, stdout |-> EmptyOut, stderr |-> "",
     rmIn |-> TRUE, rmB |-> TRUE]

\* What a call of _CliBackend.evaluate on the artifact with the document can
\* meet: tarfile failing (a bare module only), or else, when json.dump takes
\* the document, each run of the subprocess with each outcome of the removals.
CliIOs(artifact, doc) ==
    LET rmBs == IF EndsWithWasm(artifact) THEN BOOLEAN ELSE {TRUE} IN
    (IF EndsWithWasm(artifact)
     THEN {[BaseIO EXCEPT !.wrap = "fail", !.rmB = rb] : rb \in BOOLEAN}
     ELSE {})
    \cup
    (IF doc = "unserializable"
     THEN {BaseIO}
     ELSE {[BaseIO EXCEPT !.stdout = so, !.rmIn = ri, !.rmB = rb] :
              so \in ZeroStdouts, ri \in BOOLEAN, rb \in rmBs}
          \cup {[BaseIO EXCEPT !.rc = 1, !.stdout = so, !.stderr = se,
                               !.rmIn = ri, !.rmB = rb] :
                   so \in NonZeroStdouts, se \in {"", "boom"},
                   ri \in BOOLEAN, rb \in rmBs})

(***************************************************************************)
(* governant.core: helpers and backends                                    *)
(***************************************************************************)
JGet(d, k) == IF HasKey(d, k) THEN d.v[k] ELSE JNull

\* _extract_opa_json_value
extract_opa_json_value(parsed) ==
    IF ~IsDict(parsed) THEN parsed
    ELSE LET result == JGet(parsed, "result")
             first == result.v[1]
             exprs == JGet(first, "expressions")
             v == IF IsDict(exprs.v[1]) THEN JGet(exprs.v[1], "value") ELSE JNull
             found == /\ IsList(result) /\ Len(result.v) > 0
                      /\ IsDict(first)
                      /\ IsList(exprs) /\ Len(exprs.v) > 0
                      /\ v.t # "null"
         IN IF found THEN v
            ELSE IF HasKey(parsed, "result") /\ ~IsList(parsed.v["result"])
                 THEN parsed.v["result"]
                 ELSE parsed

\* What a backend's evaluate leaves behind: the outcome, the disk, the
\* temporary files the call created (0: none), the exit path it took, the
\* entrypoint it was handed, whether an os.remove raised.
Eval(out, d, bundle, input, path, handed, rmfail) ==
    [out |-> out, disk |-> d, bundle |-> bundle, input |-> input,
     made |-> {bundle, input} \ {0},
     path |-> path, handed |-> handed, rmfail |-> rmfail]

\* os.remove(f): the disk after it
Remove(d, f, succeeds) == IF succeeds THEN d \ {f} ELSE d

\* _WasmBackend.evaluate: res is what the runtime's evaluate does
WasmEvaluate(entrypoint, res, d) ==
    IF ~StartsWith(entrypoint, DataDot)
    THEN Eval(Raise("PolicyError", "Entrypoint must start with 'data.'"),
              d, 0, 0, "bad_entry", entrypoint, FALSE)
    ELSE Eval(res, d, 0, 0, "runtime", entrypoint, FALSE)

\* _CliBackend.evaluate with a cleanup block that lets the error of a failed
\* os.remove out
CliRun_cleanup_raises(entrypoint, doc, io, d, bundle) ==
    LET input == MkStemp(d)
        d1    == d \cup {input}
        d2    == Remove(d1, input, io.rmIn)
        d3    == IF bundle # 0 THEN Remove(d2, bundle, io.rmB) ELSE d2
        rmfail == ~io.rmIn \/ (bundle # 0 /\ ~io.rmB)
    IN IF doc = "unserializable"
       THEN Eval(Raise("TypeError", "not JSON serializable"),
                 d1, bundle, input, "dump_fail", entrypoint, FALSE)
       ELSE IF rmfail
       THEN Eval(Raise("OSError", "remove"), d3, bundle, input, "cleanup",
                 entrypoint, rmfail)
       ELSE IF io.rc # 0
       THEN Eval(Raise("PolicyError", "opa"), d3, bundle, input, "nonzero",
                 entrypoint, rmfail)
       ELSE Eval(Ok(EmptyDict), d3, bundle, input, "success", entrypoint, rmfail)

\* The part of _CliBackend.evaluate from _write_temp_json on: bundle is the
\* temporary bundle (0: none), d the disk with it.
\* On a non-zero exit the PolicyError raised for an "errors" object on stdout
\* is raised inside the try whose except Exception passes, so the message is
\* always stderr, else stdout, else the exit code.
CliRun(entrypoint, doc, io, d, bundle) ==
    LET input == MkStemp(d)
        d1    == d \cup {input}
        d2    == Remove(d1, input, io.rmIn)
        d3    == IF bundle # 0 THEN Remove(d2, bundle, io.rmB) ELSE d2
        rmfail == ~io.rmIn \/ (bundle # 0 /\ ~io.rmB)
        msg   == IF io.stderr # "" THEN io.stderr
                 ELSE IF io.stdout.text # "" THEN io.stdout.text
                 ELSE "opa exited with code 1"
    IN IF doc = "unserializable"
       THEN Eval(Raise("TypeError", "not JSON serializable"),
                 d1, bundle, input, "dump_fail", entrypoint, FALSE)
       ELSE IF io.rc # 0
       THEN Eval(Raise("PolicyError", msg), d3, bundle, input, "nonzero",
                 entrypoint, rmfail)
       ELSE IF io.stdout.text = ""
       THEN Eval(Ok(extract_opa_json_value(EmptyDict)), d3, bundle, input,
                 "success", entrypoint, rmfail)
       ELSE IF io.stdout.parsed.kind # "ok"
       THEN Eval(io.stdout.parsed, d3, bundle, input, "parse_fail",
                 entrypoint, rmfail)
       ELSE Eval(Ok(extract_opa_json_value(io.stdout.parsed.val)), d3, bundle,
                 input, "success", entrypoint, rmfail)

\* _CliBackend.evaluate, were it to test the entrypoint after writing the
\* input file
CliEvaluate_checks_late(artifact, entrypoint, doc, io, d) ==
    IF ~StartsWith(entrypoint, DataDot)
    THEN LET input == MkStemp(d) IN
         Eval(Raise("PolicyError", "Entrypoint must start with 'data.'"),
              d \cup {input}, 0, input, "bad_entry", entrypoint, FALSE)
    ELSE IF EndsWithWasm(artifact)
    THEN LET bundle == MkStemp(d) IN
         IF io.wrap = "fail"
         THEN Eval(Raise("PolicyError", "Failed to build temporary bundle from wasm"),
                   Remove(d \cup {bundle}, bundle, io.rmB), bundle, 0,
                   "wrap_fail", entrypoint, ~io.rmB)
         ELSE CliRun(entrypoint, doc, io, d \cup {bundle}, bundle)
    ELSE CliRun(entrypoint, doc, io, d, 0)

\* _CliBackend.evaluate
CliEvaluate(artifact, entrypoint, doc, io, d) ==
    IF ~StartsWith(entrypoint, DataDot)
    THEN Eval(Raise("PolicyError", "Entrypoint must start with 'data.'"),
              d, 0, 0, "bad_entry", entrypoint, FALSE)
    ELSE IF EndsWithWasm(artifact)
    THEN LET bundle == MkStemp(d) IN
         IF io.wrap = "fail"
         THEN Eval(Raise("PolicyError", "Failed to build temporary bundle from wasm"),
                   Remove(d \cup {bundle}, bundle, io.rmB), bundle, 0,
                   "wrap_fail", entrypoint, ~io.rmB)
         ELSE CliRun(entrypoint, doc, io, d \cup {bundle}, bundle)
    ELSE CliRun(entrypoint, doc, io, d, 0)

(***************************************************************************)
(* governant.core.PolicyEngine: a Policy Handle is [artifact, default_pkg, *)
(* backend], backend naming the class of its backend instance.             *)
(***************************************************************************)
Names == {"deploy", "release"}

Packages == {<<"g", "h">>}

Handle(artifact, pkg, backend) ==
    [artifact |-> artifact, default_pkg |-> pkg, backend |-> backend]

AllowRule == <<"a", "l", "l", "o", "w">>

ViolationsRule == <<"v", "i", "o", "l", "a", "t", "i", "o", "n", "s">>

\* PolicyEngine._ep
Ep(h, rule) == DataDot \o h.default_pkg \o <<".">> \o rule

\* What the embedded runtime's evaluate can do: return a raw value or raise
WasmResults ==
    {Raise("RuntimeError", "trap")} \cup
    {Ok(r) : r \in {JNull, JBool(TRUE), JBool(FALSE), JList(<<>>),
                    JList(<<JStr("v"), JNum(0)>>),
                    JList(<<JDict("result" :> JBool(TRUE))>>),
                    JList(<<JDict("result" :> JBool(FALSE))>>),
                    JList(<<JDict("result" :> JList(<<>>))>>),
                    JDict("result" :> JList(<<JStr("v")>>))}}

IOs(h, doc) ==
    IF h.backend = "wasm"
    THEN {[res |-> r] : r \in WasmResults}
    ELSE CliIOs(h.artifact, doc)

\* self._backend.evaluate(entrypoint, input_doc)
BackendEvaluate(h, entrypoint, doc, io, d) ==
    IF h.backend = "wasm"
    THEN WasmEvaluate(entrypoint, io.res, d)
    ELSE CliEvaluate(h.artifact, entrypoint, doc, io, d)

\* PolicyEngine.evaluate
EngineEvaluate(h, entrypoint, doc, io, d) ==
    LET e == BackendEvaluate(h, entrypoint, doc, io, d) IN
    e @@ [raw |-> e.out, io |-> io, doc |-> doc]

\* PolicyEngine.allow
EngineAllow(h, doc, io, d) ==
    LET e == BackendEvaluate(h, Ep(h, AllowRule), doc, io, d) IN
    [out |-> IF e.out.kind = "ok" THEN Ok(Truthy(e.out.val)) ELSE e.out]
    @@ e @@ [raw |-> e.out, io |-> io, doc |-> doc]

\* PolicyEngine.violations: the Python list it returns, as a sequence
EngineViolations(h, doc, io, d) ==
    LET e == BackendEvaluate(h, Ep(h, ViolationsRule), doc, io, d)
        val == e.out.val
    IN [out |-> IF e.out.kind # "ok" THEN e.out
                ELSE IF IsList(val) THEN Ok(val.v)
                ELSE IF val.t # "null" THEN Ok(<<val>>) ELSE Ok(<<>>)]
       @@ e @@ [raw |-> e.out, io |-> io, doc |-> doc]

\* PolicyRegistry.get failing
NotFound ==
    Eval(Raise("PolicyError", "Policy not found"), disk, 0, 0, "not_found",
         <<>>, FALSE)
    @@ [raw |-> Raise("PolicyError", "Policy not found"), io |-> NoCall,
        doc |-> "doc"]

\* What ret keeps of a call: before is the disk as the call found it
Returned(op, name, e) ==
    [op |-> op, name |-> name, out |-> e.out, raw |-> e.raw,
     io |-> e.io, doc |-> e.doc, before |-> disk,
     bundle |-> e.bundle, input |-> e.input, made |-> e.made,
     path |-> e.path, handed |-> e.handed, rmfail |-> e.rmfail]

(***************************************************************************)
(* SpecEval: the operations of a registry that holds one Policy Handle,    *)
(* called through the registry's passthroughs.  decision runs allow and    *)
(* then violations: frame holds the call between the two.                  *)
(***************************************************************************)
Handles ==
    {Handle(WasmArtifact, p, "wasm") : p \in Packages} \cup
    {Handle(a, p, "cli") : a \in Artifacts, p \in Packages}

CoreEntries ==
    {DataDot \o <<"g", "h", ".", "r">>, DataDot \o <<"g", "h", "/", "r">>,
     <<"g", "h", "/", "r">>}

InitEval ==
    /\ engines \in {("deploy" :> h) : h \in Handles}
    /\ disk = {}
    /\ frame = NoCall
    /\ arg = NoCall
    /\ ret = NoCall

Idle == frame.op = "none"

\* An evaluation can start: the backend can create its temporary files
CanRun(name) ==
    name \in DOMAIN engines /\ engines[name].backend = "cli"
        => CanMkStemp(disk, 2)

\* A passthrough that selects the external-process backend again for the
\* handle when its call fails
Call_reselecting(op, name, es) ==
    /\ Idle
    /\ CanRun(name)
    /\ \/ /\ name \notin DOMAIN engines
          /\ ret' = Returned(op, name, NotFound)
          /\ UNCHANGED <<disk, engines>>
       \/ /\ name \in DOMAIN engines
          /\ \E e \in es :
                /\ ret' = Returned(op, name, e)
                /\ disk' = e.disk
                /\ engines' = IF e.out.kind = "ok" THEN engines
                              ELSE [engines EXCEPT ![name].backend = "cli"]
    /\ UNCHANGED <<frame, arg>>

\* One call of a passthrough: es holds the outcomes of the PolicyEngine
\* method on the handle get(name) returns, one for each behaviour of the
\* backend's environment
Call(op, name, es) ==
    /\ Idle
    /\ CanRun(name)
    /\ \/ /\ name \notin DOMAIN engines
          /\ ret' = Returned(op, name, NotFound)
          /\ UNCHANGED disk
       \/ /\ name \in DOMAIN engines
          /\ \E e \in es :
                /\ ret' = Returned(op, name, e)
                /\ disk' = e.disk
    /\ UNCHANGED <<engines, frame, arg>>

\* PolicyRegistry.evaluate
Evaluate ==
    \E name \in Names, entrypoint \in CoreEntries, doc \in Docs :
        Call("evaluate", name,
             IF name \in DOMAIN engines
             THEN {EngineEvaluate(engines[name], entrypoint, doc, io, disk) :
                       io \in IOs(engines[name], doc)}
             ELSE {})

\* PolicyRegistry.allow
Allow ==
    \E name \in Names, doc \in Docs :
        Call("allow", name,
             IF name \in DOMAIN engines
             THEN {EngineAllow(engines[name], doc, io, disk) :
                       io \in IOs(engines[name], doc)}
             ELSE {})

\* PolicyRegistry.violations
Violations ==
    \E name \in Names, doc \in Docs :
        Call("violations", name,
             IF name \in DOMAIN engines
             THEN {EngineViolations(engines[name], doc, io, disk) :
                       io \in IOs(engines[name], doc)}
             ELSE {})

\* PolicyRegistry.decision, up to the return of self.allow(input_doc)
DecisionAllow ==
    /\ Idle
    /\ \E name \in Names, doc \in Docs :
        /\ CanRun(name)
        /\ \/ /\ name \notin DOMAIN engines
              /\ ret' = Returned("decision", name, NotFound)
              /\ UNCHANGED <<disk, frame>>
           \/ /\ name \in DOMAIN engines
              /\ \E io \in IOs(engines[name], doc) :
                    \E e \in {EngineAllow(engines[name], doc, io, disk)} :
                    /\ disk' = e.disk
                    /\ IF e.out.kind = "ok"
                       THEN /\ frame' = [op |-> "decision", name |-> name,
                                         doc |-> doc, first |-> e]
                            /\ ret' = [op |-> "pending"]
                       ELSE /\ frame' = NoCall
                            /\ ret' = Returned("decision", name, e)
    /\ UNCHANGED <<engines, arg>>

\* PolicyEngine.decision: the dictionary it builds
DecisionDict(allow, violations) == [allow |-> allow, violations |-> violations]

\* PolicyRegistry.decision, from self.violations(input_doc) on
DecisionViolations ==
    /\ frame.op = "decision"
    /\ CanRun(frame.name)
    /\ \E io \in IOs(engines[frame.name], frame.doc) :
          \E e \in {EngineViolations(engines[frame.name], frame.doc, io, disk)} :
          LET both == [e EXCEPT !.made = e.made \cup frame.first.made,
                                !.rmfail = e.rmfail \/ frame.first.rmfail,
                                !.out = IF e.out.kind = "ok"
                                        THEN Ok(DecisionDict(frame.first.out.val,
                                                             e.out.val))
                                        ELSE e.out]
          IN /\ ret' = Returned("decision", frame.name, both)
                         @@ [allowed |-> frame.first.out, violated |-> e.out]
             /\ disk' = e.disk
    /\ frame' = NoCall
    /\ UNCHANGED <<engines, arg>>

NextEval ==
    Evaluate \/ Allow \/ Violations \/ DecisionAllow \/ DecisionViolations

SpecEval == InitEval /\ [][NextEval]_vars

(***************************************************************************)
(* Claims about the Policy Handle's operations.                            *)
(***************************************************************************)
EvalOps == {"evaluate", "allow", "violations", "decision"}

\* C1: decision(input)["allow"] is true if and only if allow(input) is true
\* and violations(input) is the empty list.
C1_DecisionConjunctive ==
    (ret.op = "decision" /\ ret.out.kind = "ok") =>
        (ret.out.val.allow <=> (ret.allowed.val /\ ret.violated.val = <<>>))

\* C3: after a call of _CliBackend.evaluate (every os.remove it makes
\* succeeding), on every exit path, none of the temporary files the call
\* created exists.
C3_NoTempFileLeft ==
    (ret.op \in EvalOps /\ ~ret.rmfail) => ret.made \cap disk = {}

\* C5: PolicyEngine.allow returns to_boolean of the backend's raw result.
C5_AllowIsToBoolean ==
    (ret.op = "allow" /\ ret.raw.kind = "ok") => ret.out = as_bool(ret.raw.val)

\* to_list as the claim states it: a list unchanged, a mapping with a "result"
\* key unwrapped and normalized again, null the empty list, any other value a
\* single-element list
RECURSIVE ToListClaim(_)
ToListClaim(raw) ==
    IF IsList(raw) THEN raw.v
    ELSE IF IsDict(raw) /\ HasKey(raw, "result") THEN ToListClaim(raw.v["result"])
    ELSE IF raw.t = "null" THEN <<>>
    ELSE <<raw>>

\* C7: violations(input) is to_list of the backend's raw result.
C7_ViolationsIsToList ==
    (ret.op = "violations" /\ ret.raw.kind = "ok") =>
        ret.out = Ok(ToListClaim(ret.raw.val))

\* ", ".join of the messages of an "errors" list
RECURSIVE JoinMessages(_)
JoinMessages(errors) ==
    IF Len(errors) = 0 THEN ""
    ELSE IF Len(errors) = 1 THEN errors[1].v["message"].v
    ELSE errors[1].v["message"].v \o ", " \o JoinMessages(Tail(errors))

\* The diagnostic text of a subprocess that exited non-zero: the messages of
\* stdout's "errors" list, else stderr, else stdout, else the exit code
DiagnosticText(io) ==
    IF /\ io.stdout.text # ""
       /\ io.stdout.parsed.kind = "ok"
       /\ IsDict(io.stdout.parsed.val)
       /\ HasKey(io.stdout.parsed.val, "errors")
    THEN "opa eval error: " \o JoinMessages(io.stdout.parsed.val.v["errors"].v)
    ELSE IF io.stderr # "" THEN io.stderr
    ELSE IF io.stdout.text # "" THEN io.stdout.text
    ELSE "opa exited with code 1"

\* C27: when the opa subprocess exits non-zero, _CliBackend.evaluate raises
\* PolicyError with the diagnostic text: the joined messages of stdout's
\* "errors" list after "opa eval error:" when stdout is a JSON object with
\* an "errors" key, otherwise stderr, otherwise stdout, otherwise the exit
\* code.
C27_NonZeroExitDiagnostic ==
    (ret.op \notin {"none", "pending"} /\ ret.path = "nonzero") =>
        /\ ret.raw.kind = "PolicyError"
        /\ ret.raw.val = DiagnosticText(ret.io)

\* C12: every failure of construction or of evaluate, allow, violations and
\* decision reaches the caller as PolicyError: a call (or a registration)
\* that does not return raises PolicyError and no other exception.
C12_FailuresArePolicyError ==
    ret.op \in EvalOps \cup {"register"} => ret.out.kind \in {"ok", "PolicyError"}

\* C18: when an os.remove of the cleanup block of _CliBackend.evaluate fails,
\* the call returns or raises what it does when every removal succeeds.
C18_CleanupFailureIgnored ==
    (/\ ret.op \in {"evaluate", "allow", "violations"}
     /\ ret.name \in DOMAIN engines
     /\ engines[ret.name].backend = "cli"
     /\ ret.rmfail) =>
        \E e \in {CliEvaluate(engines[ret.name].artifact, ret.handed, ret.doc,
                              [ret.io EXCEPT !.rmIn = TRUE, !.rmB = TRUE],
                              ret.before)} :
            /\ ~e.rmfail
            /\ e.path = ret.path
            /\ e.out = ret.raw

\* C18 witness: opa exited non-zero and neither temporary file could be
\* removed; the call raised the error of the evaluation.
C18_Witness ==
    /\ ret.op = "evaluate"
    /\ ret.path = "nonzero"
    /\ ~ret.io.rmIn /\ ~ret.io.rmB
    /\ ret.bundle # 0
    /\ ret.made \subseteq disk
    /\ ret.out = Raise("PolicyError", "boom")

\* C19: no call of evaluate, allow, violations or decision, succeeding or
\* failing, changes a handle: its backend, its artifact and its default
\* package stay those of its construction.
C19_HandleUnchanged == [][engines' = engines]_vars

\* C19 witness: a call on a handle of the embedded backend failed in the
\* runtime, and the handle still has the embedded backend.
C19_Witness ==
    /\ ret.op \in EvalOps
    /\ ret.out.kind = "RuntimeError"
    /\ engines[ret.name] = Handle(WasmArtifact, <<"g", "h">>, "wasm")

\* An evaluate call of a registered policy with an entrypoint that does not
\* start with "data."
BadEntrypointCall ==
    /\ ret.op = "evaluate"
    /\ ret.name \in DOMAIN engines
    /\ ~StartsWith(ret.handed, DataDot)

\* C29: both backends reject an entrypoint that does not start with "data."
\* with PolicyError before any side effect: the call creates no temporary
\* input file or bundle, leaves the disk as it was, and neither the
\* subprocess nor the embedded runtime is run, whatever they would do.
C29_BadEntrypointNoSideEffect ==
    BadEntrypointCall =>
        /\ ret.out = Raise("PolicyError", "Entrypoint must start with 'data.'")
        /\ ret.path = "bad_entry"
        /\ ret.made = {}
        /\ disk = ret.before

C29_Witness ==
    /\ BadEntrypointCall
    /\ engines[ret.name].backend = "cli"
    /\ EndsWithWasm(engines[ret.name].artifact)
    /\ ret.io.rc = 0
    /\ ret.out.kind = "PolicyError"
    /\ disk = {}

\* A call of op that ran the external tool, which exited 0 with empty
\* stdout or with the empty JSON object: the rule is undefined
UndefinedRule(op) ==
    /\ ret.op = op
    /\ ret.path = "success"
    /\ ret.io.rc = 0
    /\ ret.io.stdout.text \in {"", "{}"}

\* C30: when the external tool exits 0 with empty stdout or with the empty
\* JSON object, allow returns False and violations returns the empty list.
C30_UndefinedRuleDeniesQuietly ==
    /\ UndefinedRule("allow") => (ret.out.kind = "ok" /\ ~ret.out.val)
    /\ UndefinedRule("violations") =>
          (ret.out.kind = "ok" /\ Len(ret.out.val) = 0)


(***************************************************************************)
(* governant.core: construction of a Policy Handle.  env is what the       *)
(* constructors meet: whether the artifact exists, whether "opa" is in     *)
(* PATH, whether opa_wasm imports, and what reading the module and         *)
(* loading it into the runtime do.                                         *)
(***************************************************************************)
Envs ==
    [exists : BOOLEAN, opa : BOOLEAN, lib : BOOLEAN,
     load : {"ok", "oserror", "runtime_error"}]

Modes == {"auto", "wasm", "cli", "AUTO", "bogus"}

\* str.lower on the modes of the model
Lower(mode) == IF mode = "AUTO" THEN "auto" ELSE mode

\* _WasmBackend.__init__
WasmBackendInit(artifact, env) ==
    IF ~env.lib
    THEN Raise("PolicyError", "opa-wasm is not installed or failed to import")
    ELSE IF ~env.exists THEN Raise("PolicyError", "Artifact not found")
    ELSE IF ~EndsWithWasm(artifact)
    THEN Raise("PolicyError", "WASM backend requires a .wasm artifact")
    ELSE IF env.load = "oserror" THEN Raise("OSError", "open")
    ELSE IF env.load = "runtime_error" THEN Raise("RuntimeError", "OPARuntime")
    ELSE Ok("wasm")

\* _CliBackend.__init__ without its test that the artifact exists
CliBackendInit_unchecked(artifact, env) ==
    IF ~env.opa THEN Raise("PolicyError", "OPA CLI not found in PATH")
    ELSE Ok("cli")

\* _CliBackend.__init__, _ensure_opa_available
CliBackendInit(artifact, env) ==
    IF ~env.exists THEN Raise("PolicyError", "Artifact not found")
    ELSE IF ~env.opa THEN Raise("PolicyError", "OPA CLI not found in PATH")
    ELSE Ok("cli")

Tried(cls, out) == [cls |-> cls, out |-> out]

\* What a construction leaves behind: the outcome and, in order, each backend
\* constructor that was called with its outcome.
Selected(out, tried) == [out |-> out, tried |-> tried]

\* _select_backend trying the other backend in the pinned modes too
select_backend_always_falls_back(artifact, mode, env) ==
    LET m == Lower(mode)
        w == WasmBackendInit(artifact, env)
        c == CliBackendInit(artifact, env)
    IN IF m \notin {"auto", "wasm", "cli"}
       THEN Selected(Raise("PolicyError", "mode must be one of: auto|wasm|cli"), <<>>)
       ELSE IF m = "cli"
       THEN IF c.kind = "ok" THEN Selected(c, <<Tried("cli", c)>>)
            ELSE Selected(w, <<Tried("cli", c), Tried("wasm", w)>>)
       ELSE IF m = "wasm" \/ EndsWithWasm(artifact)
       THEN IF w.kind = "ok" THEN Selected(w, <<Tried("wasm", w)>>)
            ELSE Selected(c, <<Tried("wasm", w), Tried("cli", c)>>)
       ELSE Selected(c, <<Tried("cli", c)>>)

\* PolicyEngine._select_backend
select_backend(artifact, mode, env) ==
    LET m == Lower(mode)
        w == WasmBackendInit(artifact, env)
        c == CliBackendInit(artifact, env)
    IN IF m \notin {"auto", "wasm", "cli"}
       THEN Selected(Raise("PolicyError", "mode must be one of: auto|wasm|cli"), <<>>)
       ELSE IF m = "wasm" THEN Selected(w, <<Tried("wasm", w)>>)
       ELSE IF m = "cli" THEN Selected(c, <<Tried("cli", c)>>)
       ELSE IF EndsWithWasm(artifact)
       THEN IF w.kind = "ok"
            THEN Selected(w, <<Tried("wasm", w)>>)
            ELSE IF w.kind = "PolicyError"
            THEN Selected(c, <<Tried("wasm", w), Tried("cli", c)>>)
            ELSE Selected(w, <<Tried("wasm", w)>>)
       ELSE Selected(c, <<Tried("cli", c)>>)

\* PolicyEngine.__init__: the handle, or the exception of _select_backend
PolicyEngineInit(artifact, pkg, mode, env) ==
    LET b == select_backend(artifact, mode, env) IN
    Selected(IF b.out.kind = "ok"
             THEN Ok(Handle(artifact, pkg, b.out.val)) ELSE b.out,
             b.tried)

(***************************************************************************)
(* governant.core.PolicyRegistry: engines maps each bound name to its      *)
(* Policy Handle.                                                          *)
(***************************************************************************)
Registered(out, engs, tried) == [out |-> out, engines |-> engs, tried |-> tried]

\* PolicyRegistry.register without its test of the name: a bound name is
\* bound again
register_overwrite(engs, name, artifact, pkg, mode, env) ==
    LET e == PolicyEngineInit(artifact, pkg, mode, env) IN
    IF e.out.kind = "ok"
    THEN Registered(Ok("None"),
                    [n \in DOMAIN engs \cup {name} |->
                        IF n = name THEN e.out.val ELSE engs[n]],
                    e.tried)
    ELSE Registered(e.out, engs, e.tried)

\* PolicyRegistry.register
register(engs, name, artifact, pkg, mode, env) ==
    IF name \in DOMAIN engs
    THEN Registered(Raise("PolicyError", "Policy already registered"), engs, <<>>)
    ELSE LET e == PolicyEngineInit(artifact, pkg, mode, env) IN
         IF e.out.kind = "ok"
         THEN Registered(Ok("None"), (name :> e.out.val) @@ engs, e.tried)
         ELSE Registered(e.out, engs, e.tried)

\* PolicyRegistry.get returning an absent value for a name that is not bound
get_or_none(engs, name) ==
    IF name \notin DOMAIN engs THEN Ok("None") ELSE Ok(engs[name])

\* PolicyRegistry.get
get(engs, name) ==
    IF name \notin DOMAIN engs
    THEN Raise("PolicyError", "Policy not found")
    ELSE Ok(engs[name])

(***************************************************************************)
(* Spec: a registry, empty at construction, and the calls that fill and    *)
(* read it.                                                                *)
(***************************************************************************)
Init ==
    /\ engines = <<>>
    /\ disk = {}
    /\ frame = NoCall
    /\ arg = NoCall
    /\ ret = NoCall

\* One call of register for an artifact of artifacts with a mode of modes in
\* an environment of envs
RegisterWith(artifacts, modes, envs) ==
    /\ Idle
    /\ \E name \in Names, artifact \in artifacts, pkg \in Packages,
          mode \in modes, env \in envs :
          \E r \in {register(engines, name, artifact, pkg, mode, env)} :
              /\ engines' = r.engines
              /\ ret' = [op |-> "register", name |-> name, artifact |-> artifact,
                         pkg |-> pkg, mode |-> mode, env |-> env,
                         before |-> engines, out |-> r.out, tried |-> r.tried]
    /\ UNCHANGED <<disk, frame, arg>>

Register == RegisterWith(Artifacts, Modes, Envs)

Get ==
    /\ Idle
    /\ \E name \in Names :
          ret' = [op |-> "get", name |-> name, out |-> get(engines, name)]
    /\ UNCHANGED <<engines, disk, frame, arg>>

Next == Register \/ Get

Spec == Init /\ [][Next]_vars

(***************************************************************************)
(* Claims about the registry and backend selection.                        *)
(***************************************************************************)
\* C4: register with a name that is already bound fails with PolicyError and
\* leaves the registry as it was: the same names bound to the same handles.
C4_DuplicateRejected ==
    (ret.op = "register" /\ ret.name \in DOMAIN ret.before) =>
        /\ ret.out.kind = "PolicyError"
        /\ engines = ret.before

\* C4 witness: a bound name was registered again with another artifact, in an
\* environment where the new handle could have been constructed.
C4_Witness ==
    /\ ret.op = "register"
    /\ ret.name \in DOMAIN ret.before
    /\ ret.before[ret.name].artifact # ret.artifact
    /\ ret.mode = "cli"
    /\ ret.out.kind = "PolicyError"
    /\ Cardinality(DOMAIN engines) = 2

\* C10: in mode auto, for an artifact ending in .wasm the embedded backend is
\* selected when it can be constructed, and whenever its construction fails
\* the external-process constructor is called instead and the embedded
\* failure does not reach the caller; for any other artifact only the
\* external-process constructor is called.
C10_AutoFallsBack ==
    (ret.op = "register" /\ ret.name \notin DOMAIN ret.before
        /\ Lower(ret.mode) = "auto") =>
        IF EndsWithWasm(ret.artifact)
        THEN /\ Len(ret.tried) >= 1
             /\ ret.tried[1].cls = "wasm"
             /\ ret.tried[1].out.kind = "ok" =>
                   /\ Len(ret.tried) = 1
                   /\ ret.out.kind = "ok"
                   /\ engines[ret.name].backend = "wasm"
             /\ ret.tried[1].out.kind # "ok" =>
                   /\ Len(ret.tried) = 2
                   /\ ret.tried[2].cls = "cli"
                   /\ ret.tried[2].out.kind = "ok" =>
                         /\ ret.out.kind = "ok"
                         /\ engines[ret.name].backend = "cli"
                   /\ ret.tried[2].out.kind # "ok" => ret.out = ret.tried[2].out
        ELSE /\ Len(ret.tried) = 1
             /\ ret.tried[1].cls = "cli"
             /\ ret.tried[1].out.kind = "ok" =>
                   /\ ret.out.kind = "ok"
                   /\ engines[ret.name].backend = "cli"

\* C11: with mode wasm or cli only the pinned backend's constructor is called;
\* when its runtime or tool is unavailable the construction fails with
\* PolicyError and nothing is bound; a mode outside auto|wasm|cli fails with
\* PolicyError before any constructor is called.
C11_ExplicitNeverFallsBack ==
    (ret.op = "register" /\ ret.name \notin DOMAIN ret.before) =>
        /\ Lower(ret.mode) \in {"wasm", "cli"} =>
              /\ Len(ret.tried) = 1
              /\ ret.tried[1].cls = Lower(ret.mode)
              /\ ret.out.kind = "ok" => engines[ret.name].backend = Lower(ret.mode)
        /\ (Lower(ret.mode) = "wasm" /\ ~ret.env.lib) =>
              ret.out.kind = "PolicyError" /\ engines = ret.before
        /\ (Lower(ret.mode) = "cli" /\ ~ret.env.opa) =>
              ret.out.kind = "PolicyError" /\ engines = ret.before
        /\ Lower(ret.mode) \notin {"auto", "wasm", "cli"} =>
              /\ ret.tried = <<>>
              /\ ret.out.kind = "PolicyError"
              /\ engines = ret.before

\* C11 witness: mode wasm without the embedded runtime, where the
\* external-process backend could have been constructed.
C11_Witness ==
    /\ ret.op = "register"
    /\ ret.name \notin DOMAIN ret.before
    /\ ret.mode = "wasm"
    /\ EndsWithWasm(ret.artifact)
    /\ ~ret.env.lib /\ ret.env.exists /\ ret.env.opa
    /\ ret.out.kind = "PolicyError"
    /\ Len(ret.tried) = 1

\* C13: in every mode, register of a name not yet bound with an artifact path
\* that does not exist fails in the call of register itself and leaves the
\* name unbound.
C13_RegisterIsEager ==
    (ret.op = "register" /\ ret.name \notin DOMAIN ret.before /\ ~ret.env.exists) =>
        /\ ret.out.kind = "PolicyError"
        /\ ret.name \notin DOMAIN engines
        /\ engines = ret.before

\* C13 witness: a missing artifact in mode cli with the opa binary present.
C13_Witness ==
    /\ ret.op = "register"
    /\ ret.name \notin DOMAIN ret.before
    /\ ~ret.env.exists /\ ret.env.opa /\ ret.env.lib
    /\ ret.mode = "cli"
    /\ ret.out = Raise("PolicyError", "Artifact not found")
    /\ ret.name \notin DOMAIN engines

(***************************************************************************)
(* SpecLookup: registrations, lookups and passthrough calls on one         *)
(* registry.  The registrations are those of a bare module in modes auto   *)
(* and wasm with the embedded runtime installed, the artifact present or   *)
(* missing.                                                                *)
(***************************************************************************)
LookupModes == {"auto", "wasm"}

LookupEnvs == {e \in Envs : e.opa /\ e.lib /\ e.load = "ok"}

RegisterSome == RegisterWith({WasmArtifact}, LookupModes, LookupEnvs)

NextLookup ==
    \/ RegisterSome
    \/ Get
    \/ Evaluate
    \/ Allow
    \/ Violations
    \/ DecisionAllow
    \/ DecisionViolations

SpecLookup == Init /\ [][NextLookup]_vars

\* What get and the passthroughs return for the registry as it is
LookupAnswers ==
    /\ ret.op = "get" =>
          ret.out = IF ret.name \in DOMAIN engines
                    THEN Ok(engines[ret.name])
                    ELSE Raise("PolicyError", "Policy not found")
    /\ (ret.op \in EvalOps /\ ret.name \notin DOMAIN engines) =>
          /\ ret.out = Raise("PolicyError", "Policy not found")
          /\ ret.handed = <<>>
          /\ ret.made = {}

\* A binding is made by a successful register of its name, to the handle that
\* call constructed, and no step changes or removes one
BindingsFromRegister ==
    engines' # engines =>
        /\ ret'.op = "register"
        /\ ret'.out.kind = "ok"
        /\ ret'.name \notin DOMAIN engines
        /\ DOMAIN engines' = DOMAIN engines \cup {ret'.name}
        /\ \A n \in DOMAIN engines : engines'[n] = engines[n]
        /\ engines'[ret'.name].artifact = ret'.artifact
        /\ engines'[ret'.name].default_pkg = ret'.pkg
        /\ engines'[ret'.name].backend = ret'.tried[Len(ret'.tried)].cls

IndexRecord(name, artifact, package) ==
    JDict("name" :> JStr(name) @@ "artifact" :> JStr(artifact)
          @@ "package" :> JStr(package))

WithMode(rec, mode) == JDict(("mode" :> JStr(mode)) @@ rec.v)

Without(rec, key) == JDict([k \in DOMAIN rec.v \ {key} |-> rec.v[k]])

ArtifactOf(path) == IF path = "policy.wasm" THEN WasmArtifact ELSE BundleArtifact

PackageOf(package) == <<"g", "h">>

IndexItems ==
    {IndexRecord("deploy", "policy.wasm", "g.h"),
     WithMode(IndexRecord("release", "bundle.tar.gz", "g.h"), "cli"),
     WithMode(IndexRecord("deploy", "bundle.tar.gz", "g.h"), "cli"),
     Without(IndexRecord("release", "policy.wasm", "g.h"), "name"),
     Without(IndexRecord("release", "policy.wasm", "g.h"), "package"),
     JStr("x")}

Indexes ==
    {[exists |-> FALSE, doc |-> Raise("OSError", "open")],
     [exists |-> TRUE, doc |-> Raise("ValueError", "json")],
     [exists |-> TRUE, doc |-> Ok(EmptyDict)],
     [exists |-> TRUE, doc |-> Ok(JStr("x"))]}
    \cup {[exists |-> TRUE, doc |-> Ok(JList(items))] :
             items \in SeqsUpTo(IndexItems, MaxIndex)}

\* The loop of load_from_index over the items that remain
RECURSIVE LoadItems(_, _, _)
LoadItems(engs, items, env) ==
    IF items = <<>> THEN Registered(Ok("None"), engs, <<>>)
    ELSE LET it == Head(items) IN
         IF ~IsDict(it)
         THEN Registered(Raise("TypeError", "indices must be integers"), engs, <<>>)
         ELSE IF ~HasKey(it, "name")
         THEN Registered(Raise("KeyError", "name"), engs, <<>>)
         ELSE IF ~HasKey(it, "artifact")
         THEN Registered(Raise("KeyError", "artifact"), engs, <<>>)
         ELSE IF ~HasKey(it, "package")
         THEN Registered(Raise("KeyError", "package"), engs, <<>>)
         ELSE LET mode == IF HasKey(it, "mode") THEN it.v["mode"].v ELSE "auto"
                  r == register(engs, it.v["name"].v, ArtifactOf(it.v["artifact"].v),
                                PackageOf(it.v["package"].v), mode, env)
              IN IF r.out.kind = "ok"
                 THEN LoadItems(r.engines, Tail(items), env)
                 ELSE r

\* load_from_index, were it to undo the registrations of a load that fails
load_from_index_rolled_back(engs, index, env) ==
    IF ~index.exists
    THEN Registered(Raise("PolicyError", "Index not found"), engs, <<>>)
    ELSE IF index.doc.kind # "ok" THEN Registered(index.doc, engs, <<>>)
    ELSE IF ~IsList(index.doc.val)
    THEN Registered(Raise("PolicyError", "Index JSON must be a list of objects"),
                    engs, <<>>)
    ELSE LET r == LoadItems(engs, index.doc.val.v, env) IN
         IF r.out.kind = "ok" THEN r ELSE [r EXCEPT !.engines = engs]

\* PolicyRegistry.load_from_index
load_from_index(engs, index, env) ==
    IF ~index.exists
    THEN Registered(Raise("PolicyError", "Index not found"), engs, <<>>)
    ELSE IF index.doc.kind # "ok" THEN Registered(index.doc, engs, <<>>)
    ELSE IF ~IsList(index.doc.val)
    THEN Registered(Raise("PolicyError", "Index JSON must be a list of objects"),
                    engs, <<>>)
    ELSE LoadItems(engs, index.doc.val.v, env)

(***************************************************************************)
(* SpecIndex: a registry that loads one index file, again and again, in    *)
(* every environment.                                                      *)
(***************************************************************************)
InitIndex ==
    /\ arg \in Indexes
    /\ engines = <<>>
    /\ disk = {}
    /\ frame = NoCall
    /\ ret = NoCall

LoadFromIndex ==
    /\ \E env \in Envs :
          \E r \in {load_from_index(engines, arg, env)} :
              /\ engines' = r.engines
              /\ ret' = [op |-> "load_from_index", env |-> env,
                         before |-> engines, out |-> r.out]
    /\ UNCHANGED <<disk, frame, arg>>

NextIndex == LoadFromIndex

SpecIndex == InitIndex /\ [][NextIndex]_vars

\* A record load_from_index can register: an object with the three keys
WellFormed(it) ==
    IsDict(it) /\ {"name", "artifact", "package"} \subseteq DOMAIN it.v

\* The registrations of the records in order, up to the first that fails
RECURSIVE RegisterInOrder(_, _, _)
RegisterInOrder(engs, items, env) ==
    IF items = <<>> THEN Registered(Ok("None"), engs, <<>>)
    ELSE LET it == Head(items)
             r == register(engs, it.v["name"].v, ArtifactOf(it.v["artifact"].v),
                           PackageOf(it.v["package"].v),
                           IF HasKey(it, "mode") THEN it.v["mode"].v ELSE "auto",
                           env)
         IN IF r.out.kind = "ok"
            THEN RegisterInOrder(r.engines, Tail(items), env)
            ELSE [r EXCEPT !.tried = <<>>]

\* C14: load_from_index of a list of well-formed records registers them in
\* file order up to the first registration that fails, whose error it
\* raises; of a document that is not a list of well-formed records it fails
\* with PolicyError.
C14_IndexRejectedAsPolicyError ==
    (ret.op = "load_from_index" /\ arg.exists /\ arg.doc.kind = "ok") =>
        LET doc == arg.doc.val IN
        IF IsList(doc) /\ \A i \in 1..Len(doc.v) : WellFormed(doc.v[i])
        THEN LET r == RegisterInOrder(ret.before, doc.v, ret.env) IN
             ret.out = r.out /\ engines = r.engines
        ELSE ret.out.kind = "PolicyError"

\* Record i of items cannot be registered after the records before it
FailsAt(items, i, before, env) ==
    \/ ~WellFormed(items[i])
    \/ items[i].v["name"].v \in DOMAIN before
    \/ \E j \in 1..(i - 1) : items[j].v["name"].v = items[i].v["name"].v
    \/ register(<<>>, items[i].v["name"].v, ArtifactOf(items[i].v["artifact"].v),
                PackageOf(items[i].v["package"].v),
                IF HasKey(items[i], "mode") THEN items[i].v["mode"].v ELSE "auto",
                env).out.kind # "ok"

\* C28: when load_from_index fails at some record (a duplicate name, a bad
\* artifact, a malformed record), every record before it is registered, no
\* record at or after it is, and what the registry held stays: the load is
\* not rolled back.
C28_FailedLoadKeepsEarlierRecords ==
    (/\ ret.op = "load_from_index" /\ ret.out.kind # "ok"
     /\ arg.exists /\ arg.doc.kind = "ok" /\ IsList(arg.doc.val)) =>
        LET items == arg.doc.val.v IN
        \E i \in 1..Len(items) :
           /\ FailsAt(items, i, ret.before, ret.env)
           /\ \A j \in 1..(i - 1) :
                 /\ ~FailsAt(items, j, ret.before, ret.env)
                 /\ items[j].v["name"].v \in DOMAIN engines
                 /\ engines[items[j].v["name"].v].artifact
                       = ArtifactOf(items[j].v["artifact"].v)
           /\ DOMAIN engines =
                 DOMAIN ret.before \cup {items[j].v["name"].v : j \in 1..(i - 1)}
           /\ \A n \in DOMAIN ret.before : engines[n] = ret.before[n]

C28_Witness ==
    /\ ret.op = "load_from_index"
    /\ ret.out.kind = "KeyError"
    /\ arg.doc.kind = "ok" /\ IsList(arg.doc.val) /\ Len(arg.doc.val.v) = 2
    /\ DOMAIN ret.before = {}
    /\ DOMAIN engines = {"deploy"}

(***************************************************************************)
(* opawasm.OPAWasmEvaluator.evaluate.  The module's heap is the set of     *)
(* pointers opa_malloc has returned and opa_free has not released, named   *)
(* by the numbers 1..MaxPtr; in SpecWasm arg holds it, for the life of the *)
(* evaluator.  fail names the step of one call that fails, if any;         *)
(* freeTraps is whether opa_free of the entrypoint buffer traps.           *)
(***************************************************************************)
WasmSteps ==
    {"none", "dumps", "malloc_input_raise", "malloc_input_zero", "write_input",
     "parse_raise", "parse_zero", "malloc_entry_raise", "malloc_entry_zero",
     "write_entry", "eval_raise", "eval_zero", "json_dump_raise",
     "json_dump_zero", "loads"}

WasmEntrypoints == {"", "data.g.h.allow"}

\* opa_malloc: the pointer it returns
Malloc(heap) == CHOOSE n \in (1..MaxPtr) \ heap : \A m \in (1..MaxPtr) \ heap : n <= m

\* What a call leaves behind: the outcome, the heap, and in order the
\* pointers opa_malloc returned and those opa_free was called with
WasmCall(out, heap, allocated, freed) ==
    [out |-> out, heap |-> heap, allocated |-> allocated, freed |-> freed]

OPAWasmError(m) == Raise("OPAWasmError", m)

\* OPAWasmEvaluator.evaluate
opa_wasm_evaluate(heap, entrypoint, fail, freeTraps) ==
    LET input_ptr == Malloc(heap)
        h1 == heap \cup {input_ptr}
        entrypoint_ptr == Malloc(h1)
        h2 == h1 \cup {entrypoint_ptr}
        failed == OPAWasmError(<<"Evaluation failed", fail>>)
    IN IF fail \in {"dumps", "malloc_input_raise"}
       THEN WasmCall(failed, heap, <<>>, <<>>)
       ELSE IF fail = "malloc_input_zero"
       THEN WasmCall(OPAWasmError(<<"Failed to allocate memory for input">>),
                     heap, <<>>, <<>>)
       ELSE IF fail \in {"write_input", "parse_raise"}
       THEN WasmCall(failed, h1 \ {input_ptr}, <<input_ptr>>, <<input_ptr>>)
       ELSE IF fail = "parse_zero"
       THEN WasmCall(OPAWasmError(<<"Failed to parse input JSON">>),
                     h1 \ {input_ptr}, <<input_ptr>>, <<input_ptr>>)
       ELSE IF entrypoint # "" /\ fail = "malloc_entry_raise"
       THEN WasmCall(failed, h1 \ {input_ptr}, <<input_ptr>>, <<input_ptr>>)
       ELSE IF entrypoint # "" /\ fail = "malloc_entry_zero"
       THEN WasmCall(OPAWasmError(<<"Failed to allocate memory for entrypoint">>),
                     h1 \ {input_ptr}, <<input_ptr>>, <<input_ptr>>)
       ELSE IF entrypoint # "" /\ fail = "write_entry"
       THEN WasmCall(failed, h2 \ {input_ptr}, <<input_ptr, entrypoint_ptr>>,
                     <<input_ptr>>)
       ELSE LET out == IF fail = "eval_zero"
                       THEN OPAWasmError(<<"Evaluation failed">>)
                       ELSE IF fail = "json_dump_zero"
                       THEN OPAWasmError(<<"Failed to dump JSON result">>)
                       ELSE IF fail \in {"eval_raise", "json_dump_raise", "loads"}
                       THEN failed
                       ELSE Ok("result")
            IN IF entrypoint = ""
               THEN WasmCall(out, h1 \ {input_ptr}, <<input_ptr>>, <<input_ptr>>)
               ELSE IF freeTraps
               THEN WasmCall(OPAWasmError(<<"Evaluation failed", "opa_free">>),
                             h2 \ {input_ptr}, <<input_ptr, entrypoint_ptr>>,
                             <<entrypoint_ptr, input_ptr>>)
               ELSE WasmCall(out, h2 \ {input_ptr, entrypoint_ptr},
                             <<input_ptr, entrypoint_ptr>>,
                             <<entrypoint_ptr, input_ptr>>)

(***************************************************************************)
(* SpecWasm: one evaluator, called again and again.                        *)
(***************************************************************************)


InitWasm ==
    /\ arg = [heap |-> {}]
    /\ ret = NoCall
    /\ engines = <<>>
    /\ disk = {}
    /\ frame = NoCall

OPAWasmEvaluate ==
    /\ Cardinality((1..MaxPtr) \ arg.heap) >= 2
    /\ \E entrypoint \in WasmEntrypoints, fail \in WasmSteps, freeTraps \in BOOLEAN :
          \E c \in {opa_wasm_evaluate(arg.heap, entrypoint, fail, freeTraps)} :
              /\ arg' = [heap |-> c.heap]
              /\ ret' = [op |-> "opa_wasm_evaluate", entrypoint |-> entrypoint,
                         fail |-> fail, freeTraps |-> freeTraps, out |-> c.out,
                         allocated |-> c.allocated, freed |-> c.freed]
    /\ UNCHANGED <<engines, disk, frame>>

NextWasm == OPAWasmEvaluate

SpecWasm == InitWasm /\ [][NextWasm]_vars

\* How many times p occurs in the sequence s
Occurrences(s, p) == Cardinality({i \in 1..Len(s) : s[i] = p})

\* C16: every pointer opa_malloc returned during a call of
\* OPAWasmEvaluator.evaluate is passed to opa_free exactly once before the
\* call returns or raises.
C16_ScratchFreedOnce ==
    ret.op = "opa_wasm_evaluate" =>
        \A i \in 1..Len(ret.allocated) :
            Occurrences(ret.freed, ret.allocated[i]) = 1

(***************************************************************************)
(* SpecThreads: two threads, each calling _CliBackend.evaluate again and   *)
(* again on a handle of the external-process backend, a step at a time.    *)
(* frame[t] is the call of thread t: where it is (at), the handle's        *)
(* artifact, the input document, the temporary paths it holds in           *)
(* tmp_bundle and input_tmp (0: none) and what the call will raise or      *)
(* return.  A path is held from the mkstemp that made it to the os.remove  *)
(* of the call that made it, or to the exception that abandons it.         *)
(***************************************************************************)
Threads == {"t1", "t2"}

NoEvaluate ==
    [at |-> "idle", artifact |-> BundleArtifact, doc |-> "doc",
     tmp_bundle |-> 0, input_tmp |-> 0, out |-> "none"]

InitThreads ==
    /\ frame = [t \in Threads |-> NoEvaluate]
    /\ disk = {}
    /\ ret = NoCall
    /\ arg = NoCall
    /\ engines \in {("deploy" :> h) @@ ("release" :> g) :
                         h, g \in {x \in Handles : x.backend = "cli"}}

ThreadStep(t, at, call, step, paths, out) ==
    /\ frame' = [frame EXCEPT ![t] = call]
    /\ ret' = [op |-> "thread", thread |-> t, step |-> step, paths |-> paths,
               out |-> out]

\* evaluate is entered with an entrypoint that starts with "data."
Enter(t) ==
    /\ frame[t].at = "idle"
    /\ \E name \in DOMAIN engines, doc \in Docs :
          LET artifact == engines[name].artifact IN
          ThreadStep(t, "idle",
                     [NoEvaluate EXCEPT !.artifact = artifact, !.doc = doc,
                                        !.at = IF EndsWithWasm(artifact)
                                               THEN "wrap" ELSE "write"],
                     "enter", {}, "none")
    /\ UNCHANGED <<engines, disk, arg>>

\* _wrap_wasm_as_bundle: mkstemp, then tarfile; when tarfile fails the file
\* is removed (or the removal fails) and PolicyError is raised
WrapBundle(t) ==
    /\ frame[t].at = "wrap"
    /\ CanMkStemp(disk, 1)
    /\ \E wrap \in {"ok", "fail"}, rmB \in BOOLEAN :
          LET tmp == MkStemp(disk) IN
          IF wrap = "ok"
          THEN /\ disk' = disk \cup {tmp}
               /\ ThreadStep(t, "wrap",
                             [frame[t] EXCEPT !.at = "write", !.tmp_bundle = tmp],
                             "wrap", {tmp}, "none")
          ELSE /\ disk' = Remove(disk \cup {tmp}, tmp, rmB)
               /\ ThreadStep(t, "wrap", NoEvaluate, "wrap_fail", {tmp},
                             "PolicyError")
    /\ UNCHANGED <<engines, arg>>

\* _write_temp_json: mkstemp, then json.dump; when json.dump raises, the
\* call is left with both files on disk
WriteInput(t) ==
    /\ frame[t].at = "write"
    /\ CanMkStemp(disk, 1)
    /\ LET tmp == MkStemp(disk) IN
       /\ disk' = disk \cup {tmp}
       /\ IF frame[t].doc = "unserializable"
          THEN ThreadStep(t, "write", NoEvaluate, "dump_fail", {tmp}, "TypeError")
          ELSE ThreadStep(t, "write",
                          [frame[t] EXCEPT !.at = "run", !.input_tmp = tmp],
                          "write", {tmp}, "none")
    /\ UNCHANGED <<engines, arg>>

\* subprocess.run reads the bundle and the input file
RunOpa(t) ==
    /\ frame[t].at = "run"
    /\ \E out \in {"ok", "PolicyError", "ValueError"} :
          ThreadStep(t, "run", [frame[t] EXCEPT !.at = "rm_input", !.out = out],
                     "run",
                     {frame[t].input_tmp} \cup
                         (IF frame[t].tmp_bundle # 0
                          THEN {frame[t].tmp_bundle} ELSE {}),
                     "none")
    /\ UNCHANGED <<engines, disk, arg>>

\* finally: os.remove(input_tmp)
RemoveInput(t) ==
    /\ frame[t].at = "rm_input"
    /\ \E rmIn \in BOOLEAN :
          /\ disk' = Remove(disk, frame[t].input_tmp, rmIn)
          /\ IF frame[t].tmp_bundle # 0
             THEN ThreadStep(t, "rm_input",
                             [frame[t] EXCEPT !.at = "rm_bundle", !.input_tmp = 0],
                             "rm_input", {frame[t].input_tmp}, "none")
             ELSE ThreadStep(t, "rm_input", NoEvaluate, "rm_input",
                             {frame[t].input_tmp}, frame[t].out)
    /\ UNCHANGED <<engines, arg>>

\* finally: os.remove(tmp_bundle)
RemoveBundle(t) ==
    /\ frame[t].at = "rm_bundle"
    /\ \E rmB \in BOOLEAN :
          /\ disk' = Remove(disk, frame[t].tmp_bundle, rmB)
          /\ ThreadStep(t, "rm_bundle", NoEvaluate, "rm_bundle",
                        {frame[t].tmp_bundle}, frame[t].out)
    /\ UNCHANGED <<engines, arg>>

NextThreads ==
    \E t \in Threads :
        \/ Enter(t)
        \/ WrapBundle(t)
        \/ WriteInput(t)
        \/ RunOpa(t)
        \/ RemoveInput(t)
        \/ RemoveBundle(t)

SpecThreads == InitThreads /\ [][NextThreads]_vars

\* The temporary paths the call of thread t holds
Held(t) == {frame[t].tmp_bundle, frame[t].input_tmp} \ {0}

\* C17: two interleaved evaluations never hold the same temporary path, and
\* the files a call holds exist until that call removes them: the paths a
\* call reads and removes are its own.
C17_TempPathsDisjoint ==
    /\ \A t, u \in Threads : t # u => Held(t) \cap Held(u) = {}
    /\ \A t \in Threads : Held(t) \subseteq disk
    /\ (ret.op = "thread" /\ ret.step \in {"run", "rm_input", "rm_bundle"}) =>
          \A u \in Threads \ {ret.thread} : ret.paths \cap Held(u) = {}

\* C17 witness: both threads are between subprocess.run and cleanup, each
\* holding a temporary bundle and a temporary input file.
C17_Witness ==
    /\ \A t \in Threads : frame[t].at = "rm_input" /\ Cardinality(Held(t)) = 2
    /\ Cardinality(UNION {Held(t) : t \in Threads}) = 4

(***************************************************************************)
(* ghprotect.handler.process_event.  evaluate_policy is called twice; each *)
(* call returns a raw result or raises (PolicyError or another error).     *)
(* arg holds the pair of what the two calls do.                            *)
(***************************************************************************)
EventRaws ==
    Atoms \cup
    {JList(<<>>), JList(<<JStr("v"), JNum(0)>>),
     JList(<<JDict("result" :> JBool(TRUE))>>),
     EmptyDict, JDict("other" :> JNum(0))} \cup
    {JDict("result" :> x) : x \in Atoms \cup {JList(<<>>), JList(<<JStr("v")>>)}}

EventOutcomes ==
    {Raise("PolicyError", "m"), Raise("PolicyError", ""),
     Raise("RuntimeError", "x")} \cup {Ok(r) : r \in EventRaws}

\* str(v): the text of a scalar; of a list or mapping, its repr, kept as the
\* value it renders
PyStr(x) ==
    CASE x.t = "null" -> [text |-> "None"]
      [] x.t = "bool" -> [text |-> IF x.v THEN "True" ELSE "False"]
      [] x.t = "num"  -> [text |-> ToString(x.v)]
      [] x.t = "str"  -> [text |-> x.v]
      [] OTHER        -> [repr |-> x]

StrEach(s) == [i \in 1..Len(s) |-> PyStr(s[i])]

\* The decision process_event returns when evaluate_policy raised PolicyError
ErrorDecision(e) ==
    [allow |-> FALSE, message |-> <<"Policy evaluation error: ", e>>,
     violations |-> <<[text |-> e]>>]

EventDecision(allow, violations) ==
    [allow |-> allow,
     message |-> IF allow THEN <<"Policy passed">> ELSE <<"Policy failed">>,
     violations |-> violations]

\* The violations list process_event builds from viol_res
EventViolations(viol_res) ==
    IF IsList(viol_res) THEN StrEach(viol_res.v)
    ELSE IF IsDict(viol_res) /\ HasKey(viol_res, "result")
    THEN LET r == viol_res.v["result"] IN
         IF IsList(r) THEN StrEach(r.v)
         ELSE IF Truthy(r) THEN <<PyStr(r)>> ELSE <<>>
    ELSE <<>>

\* process_event returning the coerced allow result alone
process_event_allow_alone(built, a, v) ==
    IF ~built THEN Raise("AttributeError", "build_policy_input")
    ELSE IF a.kind = "PolicyError" THEN Ok(ErrorDecision(a.val))
    ELSE IF a.kind # "ok" THEN a
    ELSE IF v.kind = "PolicyError" THEN Ok(ErrorDecision(v.val))
    ELSE IF v.kind # "ok" THEN v
    ELSE IF ~IsBool(a.val) /\ ~IsDict(a.val) THEN Raise("AttributeError", "get")
    ELSE LET allow == IF IsBool(a.val) THEN a.val.v
                      ELSE Truthy(IF HasKey(a.val, "result")
                                  THEN a.val.v["result"] ELSE a.val)
         IN Ok(EventDecision(allow, EventViolations(v.val)))

\* process_event: built is whether build_policy_input returned the input
\* document, a and v what the two calls of evaluate_policy do
process_event(built, a, v) ==
    IF ~built THEN Raise("AttributeError", "build_policy_input")
    ELSE IF a.kind = "PolicyError" THEN Ok(ErrorDecision(a.val))
    ELSE IF a.kind # "ok" THEN a
    ELSE IF v.kind = "PolicyError" THEN Ok(ErrorDecision(v.val))
    ELSE IF v.kind # "ok" THEN v
    ELSE IF ~IsBool(a.val) /\ ~IsDict(a.val) THEN Raise("AttributeError", "get")
    ELSE LET allow == IF IsBool(a.val) THEN a.val.v
                      ELSE Truthy(IF HasKey(a.val, "result")
                                  THEN a.val.v["result"] ELSE a.val)
             violations == EventViolations(v.val)
         IN Ok(EventDecision(allow /\ Len(violations) = 0, violations))

(***************************************************************************)
(* SpecEvent: process_event on every pair of evaluation outcomes.          *)
(***************************************************************************)
InitEvent ==
    /\ arg \in EventOutcomes \X EventOutcomes
    /\ ret = NoCall
    /\ engines = <<>>
    /\ disk = {}
    /\ frame = NoCall

ProcessEvent ==
    /\ \E built \in BOOLEAN :
          ret' = [op |-> "process_event", built |-> built,
                  out |-> process_event(built, arg[1], arg[2])]
    /\ UNCHANGED <<engines, disk, frame, arg>>

NextEvent == ProcessEvent

SpecEvent == InitEvent /\ [][NextEvent]_vars

\* The allow result coerces to true: a boolean by its value, a mapping by the
\* truthiness of its "result" (of itself when it has none)
CoercesTrue(raw) ==
    \/ IsBool(raw) /\ raw.v
    \/ IsDict(raw) /\ HasKey(raw, "result") /\ Truthy(raw.v["result"])
    \/ IsDict(raw) /\ ~HasKey(raw, "result") /\ Truthy(raw)

\* C2: process_event returns allow == true only if neither evaluation raised
\* PolicyError, the allow result coerced to true and the returned violations
\* list is empty; when an evaluation raises PolicyError the returned decision
\* has allow == false and a non-empty violations list.
C2_EventConjunctive ==
    ret.op = "process_event" =>
        /\ (ret.out.kind = "ok" /\ ret.out.val.allow) =>
              /\ arg[1].kind = "ok"
              /\ arg[2].kind = "ok"
              /\ CoercesTrue(arg[1].val)
              /\ Len(ret.out.val.violations) = 0
        /\ (ret.built /\ (arg[1].kind = "PolicyError"
                          \/ (arg[1].kind = "ok" /\ arg[2].kind = "PolicyError"))) =>
              /\ ret.out.kind = "ok"
              /\ ~ret.out.val.allow
              /\ Len(ret.out.val.violations) > 0

\* C2 witness: a wrapped true with an empty wrapped violations list was
\* allowed.
C2_Witness ==
    /\ ret.op = "process_event"
    /\ arg[1] = Ok(JDict("result" :> JBool(TRUE)))
    /\ arg[2] = Ok(JDict("result" :> JList(<<>>)))
    /\ ret.out.kind = "ok"
    /\ ret.out.val.allow

(***************************************************************************)
(* The command lines.  One run is [code, stdout, stderr, uncaught]: the    *)
(* exit code of the process, whether it printed to standard output and to  *)
(* standard error, and the class of the exception that left main, if any   *)
(* (the interpreter then prints the traceback and exits with code 1).      *)
(***************************************************************************)
CliExit(code, stdout, stderr) ==
    [code |-> code, stdout |-> stdout, stderr |-> stderr, uncaught |-> "none"]

Uncaught(exc) ==
    [code |-> 1, stdout |-> FALSE, stderr |-> TRUE, uncaught |-> exc.kind]

(***************************************************************************)
(* opawasm.cli, the "policy" command.  eng is what opawasm.main's          *)
(* PolicyEngine(artifact) meets, input what reading the input meets, rt    *)
(* and raw what the runtime does with the query.                           *)
(***************************************************************************)
PolicyCmds == {"allow", "violations", "eval"}

EngineStates == {"ok", "bundle_missing", "runtime_missing", "load_error"}

InputStates == {"ok", "missing", "invalid"}

\* opawasm.main.PolicyEngine.__init__
MainInit(eng) ==
    CASE eng = "bundle_missing"  -> Raise("PolicyError", "Bundle not found")
      [] eng = "runtime_missing" -> Raise("PolicyError", "opa-wasm runtime is unavailable")
      [] eng = "load_error"      -> Raise("RuntimeError", "from_bundle")
      [] OTHER                   -> Ok("engine")

\* _read_input
read_input(input) ==
    CASE input = "missing" -> Raise("PolicyError", "Input file not found")
      [] input = "invalid" -> Raise("PolicyError", "Invalid JSON")
      [] OTHER             -> Ok("doc")

\* _exit_for_allow
exit_for_allow(allowed, strict_exit) ==
    IF ~strict_exit THEN 0 ELSE IF allowed THEN 0 ELSE 2

\* The except clause of a command: PolicyError is reported and the command
\* returns 1; any other exception leaves main
PolicyFailed(exc) ==
    IF exc.kind = "PolicyError" THEN CliExit(1, FALSE, TRUE) ELSE Uncaught(exc)

\* What the try block of a command does once the engine is constructed and
\* the input read; query is the outcome of the engine's method
PolicyTry(a, query, code) ==
    LET e == MainInit(a.eng)
        i == read_input(a.input)
    IN IF e.kind # "ok" THEN PolicyFailed(e)
       ELSE IF i.kind # "ok" THEN PolicyFailed(i)
       ELSE IF query.kind # "ok" THEN PolicyFailed(query)
       ELSE CliExit(code, ~a.quiet, FALSE)

\* cmd_allow
cmd_allow(a) ==
    LET q == MainAllow(a.rt, a.raw).out IN
    PolicyTry(a, q, IF q.kind = "ok" THEN exit_for_allow(q.val, a.strict_exit) ELSE 0)

\* cmd_violations
cmd_violations(a) ==
    LET q == MainViolations(a.rt, a.raw).out IN
    PolicyTry(a, q, IF q.kind = "ok" /\ a.strict_exit /\ Len(q.val) > 0
                    THEN 3 ELSE 0)

\* cmd_eval
cmd_eval(a) == PolicyTry(a, MainEvaluate(AllowEntry, a.rt, a.raw).out, 0)

\* opawasm.cli.main: args.func(args)
policy_main(a) ==
    CASE a.cmd = "allow"      -> cmd_allow(a)
      [] a.cmd = "violations" -> cmd_violations(a)
      [] OTHER                -> cmd_eval(a)

PolicyRaws == {JBool(TRUE), JBool(FALSE), JList(<<>>), JList(<<JStr("v")>>)}

PolicyArgs ==
    [cli : {"policy"}, cmd : PolicyCmds, strict_exit : BOOLEAN, quiet : BOOLEAN,
     eng : EngineStates, input : InputStates, rt : {"new", "error"},
     raw : PolicyRaws]

(***************************************************************************)
(* governant.cli, the "governant" command.  The arguments are those main   *)
(* reads after _split_argv and _parse_globals_anywhere: the command (none: *)
(* no known command, help telling whether argv is empty or asks for        *)
(* help), the global options, what the index file and the input hold, and  *)
(* the environment the backends are constructed in.  --strict-exit is not  *)
(* an option of this command: parse_known_args leaves it aside.            *)
(***************************************************************************)
GovCmds == {"allow", "violations", "decision", "evaluate"}

GovInputs ==
    {"file_ok", "file_missing", "file_invalid", "stdin_ok", "stdin_empty",
     "stdin_invalid"}

\* The environments of a run: everything present, neither the opa binary nor
\* the embedded runtime, the artifact missing
GovEnvs ==
    {e \in Envs : e.load = "ok" /\ e.opa = e.lib /\ (e.exists \/ e.opa)}

GovEntrypoints == {DataDot \o <<"g", "h", ".", "r">>, <<"g", "h", "/", "r">>}

\* The command lines of a run with no command or with version
GovBareArgs ==
    [cli : {"governant"}, cmd : {"version"}, help : {FALSE},
     strict_exit : {FALSE}, index : {"none"}, artifact : {"none"},
     package : {FALSE}, policy : {"none"}, mode : {"auto"},
     input : {"stdin_empty"}, entrypoint : {DataDot \o <<"g", "h", ".", "r">>},
     env : {e \in GovEnvs : e.exists /\ e.opa}]
    \cup
    [cli : {"governant"}, cmd : {"none"}, help : BOOLEAN,
     strict_exit : {FALSE}, index : {"none"}, artifact : {"none"},
     package : {FALSE}, policy : {"none"}, mode : {"auto"},
     input : {"stdin_empty"}, entrypoint : {DataDot \o <<"g", "h", ".", "r">>},
     env : {e \in GovEnvs : e.exists /\ e.opa}]

\* The command lines of cmd with the entrypoints eps: with --index, or with
\* any of --artifact, --package and --mode
GovCmdArgs(cmd, eps) ==
    [cli : {"governant"}, cmd : {cmd}, help : {FALSE}, strict_exit : BOOLEAN,
     index : {"good", "malformed"}, artifact : {"none"}, package : {FALSE},
     policy : {"none", "deploy", "other"}, mode : {"auto"},
     input : GovInputs, entrypoint : eps, env : GovEnvs]
    \cup
    [cli : {"governant"}, cmd : {cmd}, help : {FALSE}, strict_exit : BOOLEAN,
     index : {"none"}, artifact : {"policy.wasm"}, package : {TRUE},
     policy : {"none", "deploy", "other"}, mode : {"auto", "cli"},
     input : GovInputs, entrypoint : eps, env : GovEnvs]
    \cup
    [cli : {"governant"}, cmd : {cmd}, help : {FALSE}, strict_exit : {FALSE},
     index : {"none"}, artifact : {"none", "policy.wasm"}, package : BOOLEAN,
     policy : {"none", "deploy"}, mode : {"auto"},
     input : {"file_ok"}, entrypoint : eps, env : GovEnvs]

GovArgs ==
    GovBareArgs
    \cup GovCmdArgs("evaluate", GovEntrypoints)
    \cup UNION {GovCmdArgs(cmd, {DataDot \o <<"g", "h", ".", "r">>}) :
                   cmd \in GovCmds \ {"evaluate"}}

\* What reading the file --index names gives
GovIndex(index) ==
    [exists |-> TRUE,
     doc |-> Ok(JList(IF index = "good"
                      THEN <<IndexRecord("deploy", "policy.wasm", "g.h")>>
                      ELSE <<JStr("x")>>))]

\* _build_registry
build_registry(a) ==
    IF a.index # "none" THEN load_from_index(<<>>, GovIndex(a.index), a.env)
    ELSE IF a.artifact = "none" \/ ~a.package
    THEN Registered(Raise("PolicyError", "you must provide --artifact and --package"),
                    <<>>, <<>>)
    ELSE register(<<>>, IF a.policy # "none" THEN a.policy ELSE "default",
                  ArtifactOf(a.artifact), <<"g", "h">>, a.mode, a.env)

\* _load_input
load_input(input) ==
    CASE input = "file_missing"  -> Raise("PolicyError", "Input not found")
      [] input = "file_invalid"  -> Raise("ValueError", "json")
      [] input = "stdin_invalid" -> Raise("PolicyError", "Failed to parse JSON from stdin")
      [] OTHER                   -> Ok("doc")

\* The evaluations of a run: the embedded runtime raising or returning a
\* bare value, the subprocess failing, printing what is not JSON or printing
\* a value, with the temporary files removed
GovResults == {"true", "false", "empty", "list"}

GovIOs(h) ==
    IF h.backend = "wasm"
    THEN {[res |-> r] : r \in {Raise("RuntimeError", "trap")}
                              \cup {Ok(OpaValues[n]) : n \in GovResults}}
    ELSE {[BaseIO EXCEPT !.rc = 1], [BaseIO EXCEPT !.stdout = GarbageOut]}
         \cup {[BaseIO EXCEPT !.stdout = Out(n, Ok(OpaResult(OpaValues[n])))] :
                   n \in GovResults}

\* The call of the registry's passthrough for the command: io1 and io2 are
\* what the first and the second evaluation meet
gov_query(engs, a, io1, io2) ==
    LET name == IF a.policy # "none" THEN a.policy ELSE "default" IN
    IF name \notin DOMAIN engs THEN Raise("PolicyError", "Policy not found")
    ELSE LET h == engs[name]
             al == EngineAllow(h, "doc", io1, {}).out
             vi == EngineViolations(h, "doc", io2, {}).out
         IN CASE a.cmd = "allow"      -> al
              [] a.cmd = "violations" -> vi
              [] a.cmd = "evaluate"   ->
                     EngineEvaluate(h, a.entrypoint, "doc", io1, {}).out
              [] OTHER ->
                     IF al.kind # "ok" THEN al
                     ELSE IF vi.kind # "ok" THEN vi
                     ELSE Ok(DecisionDict(al.val, vi.val))

\* The except clauses of main, were they to print the result and return 0
GovFailed_prints_result(exc) == CliExit(0, TRUE, FALSE)

\* The except clauses of main
GovFailed(exc) ==
    IF exc.kind = "PolicyError" THEN CliExit(2, FALSE, TRUE)
    ELSE CliExit(3, FALSE, TRUE)

\* main up to the command's call: the registry, or the exception raised
gov_prepare(a) ==
    LET reg == build_registry(a)
        doc == load_input(a.input)
    IN IF reg.out.kind # "ok" THEN reg.out
       ELSE IF doc.kind # "ok" THEN doc
       ELSE IF a.index # "none" /\ a.policy = "none"
       THEN Raise("PolicyError", "When using --index, you must specify --policy")
       ELSE Ok(reg.engines)

\* governant.cli.main: prepared is what gov_prepare gave and query what the
\* command's call did
governant_main(a, prepared, query) ==
    IF a.cmd = "none"
    THEN IF a.help THEN CliExit(0, TRUE, FALSE) ELSE CliExit(2, FALSE, TRUE)
    ELSE IF a.cmd = "version" THEN CliExit(0, TRUE, FALSE)
    ELSE IF prepared.kind # "ok" THEN GovFailed(prepared)
    ELSE IF query.kind # "ok" THEN GovFailed(query)
    ELSE CliExit(0, TRUE, FALSE)

(***************************************************************************)
(* SpecCli: one run of either command for each command line and            *)
(* environment.  ret keeps the run, whether the command's evaluation was   *)
(* reached and what it did.                                                *)
(***************************************************************************)
NotReached == [kind |-> "none", val |-> "none"]

InitCli ==
    /\ arg \in PolicyArgs \/ arg \in GovArgs
    /\ ret = NoCall
    /\ engines = <<>>
    /\ disk = {}
    /\ frame = NoCall

CliRan(run, query) ==
    [op |-> "cli", run |-> run, reached |-> query.kind # "none", query |-> query]

\* The outcome of the engine's method a "policy" command calls
policy_query(a) ==
    IF MainInit(a.eng).kind # "ok" \/ read_input(a.input).kind # "ok"
    THEN NotReached
    ELSE CASE a.cmd = "allow"      -> MainAllow(a.rt, a.raw).out
           [] a.cmd = "violations" -> MainViolations(a.rt, a.raw).out
           [] OTHER                -> MainEvaluate(AllowEntry, a.rt, a.raw).out

PolicyCli ==
    /\ arg.cli = "policy"
    /\ ret' = CliRan(policy_main(arg), policy_query(arg))
    /\ UNCHANGED <<engines, disk, frame, arg>>

GovernantCli ==
    /\ arg.cli = "governant"
    /\ \E prepared \in {IF arg.cmd \in GovCmds THEN gov_prepare(arg) ELSE NotReached} :
          IF prepared.kind # "ok"
          THEN ret' = CliRan(governant_main(arg, prepared, NotReached), NotReached)
          ELSE LET name == IF arg.policy # "none" THEN arg.policy ELSE "default"
                   ios == IF name \in DOMAIN prepared.val
                          THEN GovIOs(prepared.val[name]) ELSE {NoCall}
               IN \E io1 \in ios :
                     \E io2 \in IF arg.cmd = "decision" THEN ios ELSE {io1} :
                        \E q \in {gov_query(prepared.val, arg, io1, io2)} :
                           ret' = CliRan(governant_main(arg, prepared, q), q)
    /\ UNCHANGED <<engines, disk, frame, arg>>

NextCli == PolicyCli \/ GovernantCli

SpecCli == InitCli /\ [][NextCli]_vars

\* The outcomes whose exit codes the convention tells apart, as the run of
\* ret shows them
CliOutcome ==
    IF ret.reached
    THEN IF /\ arg.cmd = "allow" /\ arg.strict_exit
            /\ ret.query.kind = "ok" /\ ~ret.query.val
         THEN "denied"
         ELSE IF /\ arg.cmd = "violations" /\ arg.strict_exit
                 /\ ret.query.kind = "ok" /\ Len(ret.query.val) > 0
         THEN "violations present"
         ELSE IF ret.query.kind = "ok" THEN "success" ELSE "other"
    ELSE IF arg.cli = "policy"
    THEN IF arg.eng = "runtime_missing" THEN "tool not found"
         ELSE IF arg.eng = "ok" /\ arg.input = "invalid" THEN "malformed input"
         ELSE "other"
    ELSE IF arg.cmd \notin GovCmds THEN "other"
         ELSE IF build_registry(arg).out.kind # "ok"
         THEN IF /\ arg.index = "none" /\ arg.artifact # "none" /\ arg.package
                 /\ arg.env.exists /\ ~arg.env.opa
              THEN "tool not found" ELSE "other"
         ELSE IF arg.input \in {"file_invalid", "stdin_invalid"}
         THEN "malformed input" ELSE "other"

\* The exit code each command gives the four failing outcomes, on one
\* command line for each
PolicyLine(cmd, eng, input, raw) ==
    [cli |-> "policy", cmd |-> cmd, strict_exit |-> TRUE, quiet |-> FALSE,
     eng |-> eng, input |-> input, rt |-> "new", raw |-> raw]

GovLine(cmd, input, opa) ==
    [cli |-> "governant", cmd |-> cmd, help |-> FALSE, strict_exit |-> TRUE,
     index |-> "none", artifact |-> "policy.wasm", package |-> TRUE,
     policy |-> "none", mode |-> "auto", input |-> input,
     entrypoint |-> DataDot \o <<"g", "h", ".", "r">>,
     env |-> [exists |-> TRUE, opa |-> opa, lib |-> opa, load |-> "ok"]]

\* The exit code of the governant run of command line a whose call did query
GovCode(a, query) == governant_main(a, gov_prepare(a), query).code

OutcomeCode(cli, outcome) ==
    IF cli = "policy"
    THEN CASE outcome = "denied" ->
                  policy_main(PolicyLine("allow", "ok", "ok", JBool(FALSE))).code
           [] outcome = "violations present" ->
                  policy_main(PolicyLine("violations", "ok", "ok",
                                         JList(<<JStr("v")>>))).code
           [] outcome = "malformed input" ->
                  policy_main(PolicyLine("allow", "ok", "invalid", JBool(TRUE))).code
           [] OTHER ->
                  policy_main(PolicyLine("allow", "runtime_missing", "ok",
                                         JBool(TRUE))).code
    ELSE CASE outcome = "denied" ->
                  GovCode(GovLine("allow", "stdin_ok", TRUE), Ok(FALSE))
           [] outcome = "violations present" ->
                  GovCode(GovLine("violations", "stdin_ok", TRUE),
                          Ok(<<JStr("v")>>))
           [] outcome = "malformed input" ->
                  GovCode(GovLine("allow", "stdin_invalid", TRUE), NotReached)
           [] OTHER ->
                  GovCode(GovLine("allow", "stdin_ok", FALSE), NotReached)

FailingOutcomes ==
    {"denied", "violations present", "malformed input", "tool not found"}

\* C20: a successful run exits with 0; with --strict-exit a denied run exits
\* with a non-zero code; and a run that ends in one of the outcomes denied,
\* violations present, malformed input and tool not found exits with a
\* non-zero code that no other of these outcomes has.
C20_ExitCodesTellOutcomes ==
    ret.op = "cli" =>
        /\ CliOutcome = "success" => ret.run.code = 0
        /\ CliOutcome \in FailingOutcomes =>
              /\ ret.run.code # 0
              /\ \A o \in FailingOutcomes \ {CliOutcome} :
                    ret.run.code # OutcomeCode(arg.cli, o)

\* A governant run whose command was recognized and that failed: building
\* the registry, loading the input or the --policy check raised, or the
\* command's call raised
GovRunFailed ==
    /\ ret.op = "cli"
    /\ arg.cli = "governant"
    /\ arg.cmd \in GovCmds
    /\ \/ gov_prepare(arg).kind # "ok"
       \/ ret.query.kind \notin {"ok", "none"}

\* C21: every failure of a governant run after its command was recognized
\* (building the registry, loading the input, --index without --policy,
\* evaluating) ends with a non-zero exit code and a message on stderr, and
\* the run prints nothing on stdout.
C21_FailuresGoToStderr ==
    GovRunFailed => /\ ret.run.code # 0
                    /\ ret.run.stderr
                    /\ ~ret.run.stdout

C21_Witness ==
    /\ GovRunFailed
    /\ ret.reached
    /\ ret.query.kind = "RuntimeError"
    /\ ret.run.code = 3
    /\ ret.run.stderr /\ ~ret.run.stdout

(***************************************************************************)
(* core.governance: GovernanceManager.  A Python dict is the sequence of   *)
(* its <<key, value>> entries in insertion order, with no key twice.  A    *)
(* GovernanceRule is the record of its fields; the two timestamps, which   *)
(* no method reads, are left out.  frame.rules is self.rules.              *)
(***************************************************************************)
None == [none |-> TRUE]

DictHas(d, k) == \E i \in 1..Len(d) : d[i][1] = k

\* dict.get(k): the value stored under k, or None
DictGet(d, k) ==
    IF DictHas(d, k) THEN d[CHOOSE i \in 1..Len(d) : d[i][1] = k][2] ELSE None

\* d[k] = v: in place when k is a key, at the end otherwise
DictSet(d, k, v) ==
    IF DictHas(d, k)
    THEN [i \in 1..Len(d) |-> IF d[i][1] = k THEN <<k, v>> ELSE d[i]]
    ELSE Append(d, <<k, v>>)

IsNot(k, entry) == entry[1] # k

\* del d[k]
DictDel(d, k) ==
    LET Keep(entry) == IsNot(k, entry) IN SelectSeq(d, Keep)

RuleIds == {"r1", "r2", "r3"}

GovernanceRule(id, name, enabled) ==
    [id |-> id, name |-> name, description |-> "d", severity |-> "low",
     enabled |-> enabled]

GovernanceRules ==
    {GovernanceRule(id, name, enabled) :
        id \in RuleIds, name \in {"n1", "n2"}, enabled \in BOOLEAN}

\* The data validate is given: {} and {"test": "data"}
DataDocs == {<<>>, <<<<"test", "data">>>>}

\* add_rule, were it to store the rule whatever the map holds
add_rule_overwriting(rules, rule) ==
    [rules |-> DictSet(rules, rule.id, rule), out |-> TRUE]

add_rule(rules, rule) ==
    IF DictHas(rules, rule.id) THEN [rules |-> rules, out |-> FALSE]
    ELSE [rules |-> DictSet(rules, rule.id, rule), out |-> TRUE]

remove_rule(rules, rule_id) ==
    IF ~DictHas(rules, rule_id) THEN [rules |-> rules, out |-> FALSE]
    ELSE [rules |-> DictDel(rules, rule_id), out |-> TRUE]

get_rule(rules, rule_id) == DictGet(rules, rule_id)

IsEnabled(entry) == entry[2].enabled

\* list_rules: the values in insertion order, the enabled ones only when
\* enabled_only
list_rules(rules, enabled_only) ==
    LET kept == IF enabled_only THEN SelectSeq(rules, IsEnabled) ELSE rules
    IN [i \in 1..Len(kept) |-> kept[i][2]]

\* _check_rule: the message, or None
check_rule(rule, data) ==
    IF Len(data) = 0 THEN [message |-> "Data cannot be empty"] ELSE None

Violation(rule, message) ==
    [rule_id |-> rule.id, rule_name |-> rule.name, severity |-> rule.severity,
     message |-> message]

\* validate: one violation for each enabled rule _check_rule gives a
\* message for, in the order of list_rules
validate(rules, data) ==
    LET enabled == list_rules(rules, TRUE)
        Violates(rule) == check_rule(rule, data) # None
        failed == SelectSeq(enabled, Violates)
    IN [valid |-> Len(failed) = 0,
        violations |-> [i \in 1..Len(failed) |->
                           Violation(failed[i],
                                     check_rule(failed[i], data).message)],
        timestamp |-> "now"]

(***************************************************************************)
(* SpecGovernance: one GovernanceManager and any sequence of calls of its  *)
(* methods.  ret keeps the last call, its argument and what it returned.   *)
(***************************************************************************)
InitGovernance ==
    /\ frame = [rules |-> <<>>]
    /\ ret = NoCall
    /\ engines = <<>>
    /\ disk = {}
    /\ arg = NoCall

AddRule ==
    \E rule \in GovernanceRules :
       \E r \in {add_rule(frame.rules, rule)} :
          /\ frame' = [rules |-> r.rules]
          /\ ret' = [op |-> "add_rule", arg |-> rule, val |-> r.out]
          /\ UNCHANGED <<engines, disk, arg>>

RemoveRule ==
    \E id \in RuleIds :
       \E r \in {remove_rule(frame.rules, id)} :
          /\ frame' = [rules |-> r.rules]
          /\ ret' = [op |-> "remove_rule", arg |-> id, val |-> r.out]
          /\ UNCHANGED <<engines, disk, arg>>

GetRule ==
    \E id \in RuleIds :
       /\ ret' = [op |-> "get_rule", arg |-> id, val |-> get_rule(frame.rules, id)]
       /\ UNCHANGED <<engines, disk, arg, frame>>

ListRules ==
    \E enabled_only \in BOOLEAN :
       /\ ret' = [op |-> "list_rules", arg |-> enabled_only,
                  val |-> list_rules(frame.rules, enabled_only)]
       /\ UNCHANGED <<engines, disk, arg, frame>>

Validate ==
    \E data \in DataDocs :
       /\ ret' = [op |-> "validate", arg |-> data,
                  val |-> validate(frame.rules, data)]
       /\ UNCHANGED <<engines, disk, arg, frame>>

NextGovernance == AddRule \/ RemoveRule \/ GetRule \/ ListRules \/ Validate

SpecGovernance == InitGovernance /\ [][NextGovernance]_vars

\* The rule map of a dict: the function from its keys to their values
AsMap(d) == [k \in {d[i][1] : i \in 1..Len(d)} |-> DictGet(d, k)]

\* The reference map's add_rule, remove_rule and get_rule
RefAdd(m, rule) ==
    IF rule.id \in DOMAIN m THEN [map |-> m, out |-> FALSE]
    ELSE [map |-> [k \in DOMAIN m \cup {rule.id} |->
                      IF k = rule.id THEN rule ELSE m[k]],
          out |-> TRUE]

RefRemove(m, id) ==
    IF id \notin DOMAIN m THEN [map |-> m, out |-> FALSE]
    ELSE [map |-> [k \in DOMAIN m \ {id} |-> m[k]], out |-> TRUE]

RefGet(m, id) == IF id \in DOMAIN m THEN m[id] ELSE None

\* One call of the manager does to the rule map what the reference does
RefinesReference ==
    LET m == AsMap(frame.rules)
        n == AsMap(frame'.rules)
    IN CASE ret'.op = "add_rule" ->
                /\ n = RefAdd(m, ret'.arg).map
                /\ ret'.val = RefAdd(m, ret'.arg).out
         [] ret'.op = "remove_rule" ->
                /\ n = RefRemove(m, ret'.arg).map
                /\ ret'.val = RefRemove(m, ret'.arg).out
         [] ret'.op = "get_rule" ->
                /\ n = m
                /\ ret'.val = RefGet(m, ret'.arg)
         [] OTHER -> n = m

\* C22: after any sequence of add_rule and remove_rule calls the manager's
\* rule map is the reference map's: add_rule inserts only when the id is
\* absent and returns True, otherwise returns False and leaves the stored
\* rule alone; remove_rule deletes only when the id is present and returns
\* True, otherwise returns False; get_rule returns the stored rule or None.
C22_RuleMapRefinesReference ==
    /\ [](Len(frame.rules) = Cardinality(DOMAIN AsMap(frame.rules)))
    /\ [][RefinesReference]_vars

C22_Witness ==
    /\ ret.op = "add_rule"
    /\ ~ret.val
    /\ Len(frame.rules) = 2
    /\ DictGet(frame.rules, ret.arg.id) # ret.arg

\* C23: in every state of the manager, validate of empty data returns
\* valid == False with at least one violation.
C23_EmptyDataInvalid ==
    (ret.op = "validate" /\ Len(ret.arg) = 0) =>
        /\ ~ret.val.valid
        /\ Len(ret.val.violations) >= 1

(***************************************************************************)
(* utils.validators.  A str is JStr of the sequence of its characters;     *)
(* rule_data is a dict as above, from field names to values.               *)
(***************************************************************************)
Uppers ==
    <<"A", "B", "C", "D", "E", "F", "G", "H", "I", "J", "K", "L", "M",
      "N", "O", "P", "Q", "R", "S", "T", "U", "V", "W", "X", "Y", "Z">>

Lowers ==
    <<"a", "b", "c", "d", "e", "f", "g", "h", "i", "j", "k", "l", "m",
      "n", "o", "p", "q", "r", "s", "t", "u", "v", "w", "x", "y", "z">>

LowerChar(c) ==
    IF \E i \in 1..Len(Uppers) : Uppers[i] = c
    THEN Lowers[CHOOSE i \in 1..Len(Uppers) : Uppers[i] = c]
    ELSE c

\* str.lower()
str_lower(s) == [i \in 1..Len(s) |-> LowerChar(s[i])]

Whitespace == {" ", "\t", "\n"}

\* str.strip(): without its leading and trailing whitespace
str_strip(s) ==
    LET inked == {i \in 1..Len(s) : s[i] \notin Whitespace}
    IN IF inked = {} THEN <<>>
       ELSE LET first == CHOOSE i \in inked : \A j \in inked : i <= j
                last  == CHOOSE i \in inked : \A j \in inked : j <= i
            IN SubSeq(s, first, last)

SEVERITY_LEVELS ==
    {<<"l", "o", "w">>, <<"m", "e", "d", "i", "u", "m">>,
     <<"h", "i", "g", "h">>, <<"c", "r", "i", "t", "i", "c", "a", "l">>}

\* validate_severity, were it to compare the severity as it is written
validate_severity_case_sensitive(severity) ==
    IF severity.t # "str"
    THEN <<FALSE, [text |-> "Severity must be a string", about |-> severity.t]>>
    ELSE IF severity.v \notin SEVERITY_LEVELS
    THEN <<FALSE, [text |-> "Invalid severity level", about |-> severity.t]>>
    ELSE <<TRUE, None>>

validate_severity(severity) ==
    IF severity.t # "str"
    THEN <<FALSE, [text |-> "Severity must be a string", about |-> severity.t]>>
    ELSE IF str_lower(severity.v) \notin SEVERITY_LEVELS
    THEN <<FALSE, [text |-> "Invalid severity level", about |-> severity.t]>>
    ELSE <<TRUE, None>>

\* sorted(required_fields - set(rule_data.keys()))
MissingFields(rule_data) ==
    LET Missing(k) == ~DictHas(rule_data, k)
    IN SelectSeq(<<"description", "name", "severity">>, Missing)

\* not isinstance(value, str) or not value.strip()
EmptyText(value) == value.t # "str" \/ Len(str_strip(value.v)) = 0

validate_rule_data(rule_data) ==
    IF Len(MissingFields(rule_data)) > 0
    THEN <<FALSE, [text |-> "Missing required fields", about |-> "fields"]>>
    ELSE LET checked == validate_severity(DictGet(rule_data, "severity")) IN
         IF ~checked[1] THEN <<FALSE, checked[2]>>
         ELSE IF EmptyText(DictGet(rule_data, "name"))
         THEN <<FALSE, [text |-> "Rule name cannot be empty", about |-> "name"]>>
         ELSE IF EmptyText(DictGet(rule_data, "description"))
         THEN <<FALSE, [text |-> "Rule description cannot be empty",
                        about |-> "description"]>>
         ELSE <<TRUE, None>>

(***************************************************************************)
(* SpecRuleData: validate_rule_data and validate_severity on rule data     *)
(* with each field absent, not a string, blank or filled, and severities   *)
(* in every case.                                                          *)
(***************************************************************************)
TextValues ==
    {JStr(<<"n">>), JStr(<<>>), JStr(<<" ", "\t">>), JStr(<<" ", "n", " ">>),
     JNum(1)}

SeverityValues ==
    {JStr(<<"l", "o", "w">>), JStr(<<"L", "o", "w">>),
     JStr(<<"C", "R", "I", "T", "I", "C", "A", "L">>),
     JStr(<<"m", "e", "d", "i", "u", "m">>), JStr(<<"H", "i", "g", "h">>),
     JStr(<<"b", "a", "d">>), JStr(<<>>), JStr(<<" ", "l", "o", "w">>),
     JNum(1), JNull}

\* The dicts with any of the three fields, in either order of name and
\* severity
Field(k, values) == {<<>>} \cup {<<<<k, v>>>> : v \in values}

RuleDatas ==
    {n \o d \o s : n \in Field("name", TextValues),
                   d \in Field("description", TextValues),
                   s \in Field("severity", SeverityValues)}
    \cup {s \o n : n \in Field("name", TextValues),
                   s \in Field("severity", SeverityValues)}

InitRuleData ==
    /\ arg \in RuleDatas
    /\ ret = NoCall
    /\ engines = <<>>
    /\ disk = {}
    /\ frame = NoCall

ValidateRuleData ==
    /\ ret' = [op |-> "validate_rule_data", val |-> validate_rule_data(arg)]
    /\ UNCHANGED <<engines, disk, frame, arg>>

ValidateSeverity ==
    /\ DictHas(arg, "severity")
    /\ ret' = [op |-> "validate_severity",
               val |-> validate_severity(DictGet(arg, "severity"))]
    /\ UNCHANGED <<engines, disk, frame, arg>>

NextRuleData == ValidateRuleData \/ ValidateSeverity

SpecRuleData == InitRuleData /\ [][NextRuleData]_vars

\* Two strings are equal when case is ignored
SameIgnoringCase(a, b) ==
    /\ Len(a) = Len(b)
    /\ \A i \in 1..Len(a) : LowerChar(a[i]) = LowerChar(b[i])

SeverityAccepted(d) ==
    /\ DictGet(d, "severity").t = "str"
    /\ \E level \in SEVERITY_LEVELS : SameIgnoringCase(DictGet(d, "severity").v, level)

NonBlank(value) ==
    /\ value.t = "str"
    /\ \E i \in 1..Len(value.v) : value.v[i] \notin Whitespace

\* The first check rule data d fails, in the order missing fields,
\* severity, name, description
FirstFailing(d) ==
    IF \E k \in {"name", "description", "severity"} : ~DictHas(d, k)
    THEN "missing"
    ELSE IF ~SeverityAccepted(d) THEN "severity"
    ELSE IF ~NonBlank(DictGet(d, "name")) THEN "name"
    ELSE IF ~NonBlank(DictGet(d, "description")) THEN "description"
    ELSE "none"

\* The check a message is the message of
CheckOf(text) ==
    CASE text = "Missing required fields"          -> "missing"
      [] text \in {"Severity must be a string",
                   "Invalid severity level"}       -> "severity"
      [] text = "Rule name cannot be empty"        -> "name"
      [] text = "Rule description cannot be empty" -> "description"
      [] OTHER                                     -> "unknown"

\* C24: validate_rule_data returns (True, None) exactly when name,
\* description and severity are all present, severity is a string equal to
\* a level when case is ignored, and name and description are non-blank
\* strings; otherwise it returns (False, message) with the message of the
\* first failing check in the order missing fields, severity, name,
\* description.
C24_RuleDataValidated ==
    ret.op = "validate_rule_data" =>
        IF FirstFailing(arg) = "none"
        THEN ret.val[1] /\ ret.val[2] = None
        ELSE /\ ~ret.val[1]
             /\ ret.val[2] # None
             /\ CheckOf(ret.val[2].text) = FirstFailing(arg)

C24_Witness ==
    /\ ret.op = "validate_rule_data"
    /\ ~ret.val[1]
    /\ FirstFailing(arg) = "name"
    /\ DictGet(arg, "severity") = JStr(<<"H", "i", "g", "h">>)
    /\ DictGet(arg, "description").t = "num"

(***************************************************************************)
(* SpecExtract: _extract_opa_json_value on what json.loads gives for the   *)
(* tool's output: the document {"result": [{"expressions": [{"value":      *)
(* V}]}]} for each value V, and documents of other shapes.  arg keeps the  *)
(* parsed document and, for the first kind, V.                             *)
(***************************************************************************)
ExtractArgs ==
    {[parsed |-> OpaResult(v), wrapped |-> TRUE, value |-> v] : v \in RawValues}
    \cup {[parsed |-> p, wrapped |-> FALSE, value |-> JNull] :
             p \in DictRaws \cup Atoms}

InitExtract ==
    /\ arg \in ExtractArgs
    /\ ret = NoCall
    /\ engines = <<>>
    /\ disk = {}
    /\ frame = NoCall

ExtractOpaJsonValue ==
    /\ ret' = [op |-> "extract", out |-> extract_opa_json_value(arg.parsed)]
    /\ UNCHANGED <<engines, disk, frame, arg>>

NextExtract == ExtractOpaJsonValue

SpecExtract == InitExtract /\ [][NextExtract]_vars

\* C25: for every JSON value V, _extract_opa_json_value of the document
\* {"result": [{"expressions": [{"value": V}]}]} returns V, and not the
\* document itself.
C25_ExtractReturnsValue ==
    (ret.op = "extract" /\ arg.wrapped) =>
        /\ ret.out.t = arg.value.t
        /\ ret.out = arg.value

(***************************************************************************)
(* ghprotect.handler.build_policy_input.  The payload and the policy       *)
(* configuration are JSON mappings; strings are compared whole, so they    *)
(* stay strings.  The list re.findall gives is kept as the pattern and the *)
(* text it is applied to.                                                  *)
(***************************************************************************)
\* d.get(k, default)
PyGet(d, k, default) == IF HasKey(d, k) THEN d.v[k] ELSE default

\* x or default
PyOr(x, default) == IF Truthy(x) THEN x ELSE default

\* int(x)
py_int(x) ==
    CASE x.t = "num"  -> Ok(x.v)
      [] x.t = "bool" -> Ok(IF x.v THEN 1 ELSE 0)
      [] x.t = "str"  -> IF x.v = "3" THEN Ok(3)
                         ELSE Raise("ValueError", "invalid literal for int()")
      [] OTHER        -> Raise("TypeError", "int() argument")

\* x == s for a str s
IsStr(x, s) == x.t = "str" /\ x.v = s

\* _extract_ticket_refs: re.compile takes a str only
extract_ticket_refs(title, body, pattern) ==
    IF pattern.t # "str" THEN Raise("TypeError", "first argument must be string")
    ELSE Ok([findall |-> pattern.v, title |-> title, body |-> body])

\* repo_policy.get("policy", {}).get("environments", {})
\*            .get(environment, {}).get("rules", {})
RulesOf(repo_policy, environment) ==
    LET policy == PyGet(repo_policy, "policy", EmptyDict)
        envs   == PyGet(policy, "environments", EmptyDict)
        env    == PyGet(envs, environment, EmptyDict)
    IN IF ~IsDict(policy) \/ ~IsDict(envs) \/ ~IsDict(env)
       THEN Raise("AttributeError", "get")
       ELSE Ok(PyGet(env, "rules", EmptyDict))

\* rules.get("ticket_pattern", "^.*$")
TicketPattern(rules) ==
    IF ~IsDict(rules) THEN Raise("AttributeError", "get")
    ELSE Ok(PyGet(rules, "ticket_pattern", JStr("^.*$")))

IsApproval(r) ==
    /\ IsStr(PyGet(r, "state", JNull), "APPROVED")
    /\ Truthy(PyGet(PyGet(r, "user", EmptyDict), "login", JNull))

\* _collect_pr_approvers
collect_pr_approvers(pr) ==
    LET reviews == PyOr(PyGet(pr, "reviews", JList(<<>>)), JList(<<>>))
        approving == SelectSeq(reviews.v, IsApproval)
    IN IF \E i \in 1..Len(reviews.v) :
             \/ ~IsDict(reviews.v[i])
             \/ ~IsDict(PyGet(reviews.v[i], "user", EmptyDict))
       THEN Raise("AttributeError", "get")
       ELSE Ok([i \in 1..Len(approving) |-> approving[i].v["user"].v["login"]])

\* The environment of a base ref or of a pushed ref
EnvironmentOf(ref, main, develops) ==
    IF IsStr(ref, main) THEN "production"
    ELSE IF \E d \in develops : IsStr(ref, d) THEN "staging"
    ELSE "development"

InputDoc(environment, ref, repo_policy, envs, refs, approvers, tests, signed, count) ==
    [environment |-> environment, ref |-> ref, repo_policy |-> repo_policy,
     repo_environments |-> envs,
     workflow_meta |->
         [ticket_refs |-> refs, approvers |-> approvers,
          checks |-> [tests |-> Truthy(tests)],
          signed_off |-> Truthy(signed),
          deployments_today |-> count]]

DefaultEnvironments == <<"production", "staging", "development">>

\* The pull_request branch
build_for_pull_request(payload, repo_policy, envs) ==
    LET pr   == PyGet(payload, "pull_request", EmptyDict)
        head == PyGet(pr, "head", EmptyDict)
        base == PyGet(pr, "base", EmptyDict)
        ref  == PyGet(head, "ref", JStr(""))
        environment ==
            EnvironmentOf(PyGet(base, "ref", JStr("")), "main",
                          {"develop", "development", "dev"})
        rules   == RulesOf(repo_policy, environment)
        pattern == TicketPattern(rules.val)
        refs    == extract_ticket_refs(PyGet(pr, "title", JStr("")),
                                       PyGet(pr, "body", JStr("")), pattern.val)
        approvers == collect_pr_approvers(pr)
        checks  == PyGet(payload, "checks", EmptyDict)
        tests   == PyGet(checks, "tests", JNull)
        count   == py_int(PyGet(payload, "deployments_today", JNum(0)))
    IN IF ~IsDict(pr) \/ ~IsDict(head) \/ ~IsDict(base)
       THEN Raise("AttributeError", "get")
       ELSE IF rules.kind # "ok" THEN rules
       ELSE IF pattern.kind # "ok" THEN pattern
       ELSE IF refs.kind # "ok" THEN refs
       ELSE IF approvers.kind # "ok" THEN approvers
       ELSE IF ~IsDict(checks) THEN Raise("AttributeError", "get")
       ELSE IF count.kind # "ok" THEN count
       ELSE Ok(InputDoc(environment, ref, repo_policy, envs, refs.val,
                        approvers.val, tests,
                        PyGet(payload, "signed_off", JBool(FALSE)), count.val))

\* The push branch
build_for_push(payload, repo_policy, envs) ==
    LET ref == PyGet(payload, "ref", JStr(""))
        environment ==
            EnvironmentOf(ref, "refs/heads/main",
                          {"refs/heads/develop", "refs/heads/development",
                           "refs/heads/dev"})
        rules   == RulesOf(repo_policy, environment)
        pattern == TicketPattern(rules.val)
        commits == PyOr(PyGet(payload, "commits", JList(<<>>)), JList(<<>>))
        title   == IF Len(commits.v) > 0
                   THEN PyGet(commits.v[1], "message", JStr("")) ELSE JStr("")
        refs    == extract_ticket_refs(title, commits.v, pattern.val)
    IN IF rules.kind # "ok" THEN rules
       ELSE IF pattern.kind # "ok" THEN pattern
       ELSE IF \E i \in 1..Len(commits.v) : ~IsDict(commits.v[i])
       THEN Raise("AttributeError", "get")
       ELSE IF \E i \in 1..Len(commits.v) :
                  PyGet(commits.v[i], "message", JStr("")).t # "str"
       THEN Raise("TypeError", "join")
       ELSE IF refs.kind # "ok" THEN refs
       ELSE Ok(InputDoc(environment, ref, repo_policy, envs, refs.val,
                        <<>>, JBool(FALSE), JBool(FALSE), 0))

\* The branch of any other event
build_for_other(payload, repo_policy, envs) ==
    LET rules   == RulesOf(repo_policy, "production")
        pattern == TicketPattern(rules.val)
    IN IF rules.kind # "ok" THEN rules
       ELSE IF pattern.kind # "ok" THEN pattern
       ELSE Ok(InputDoc("production", PyOr(PyGet(payload, "ref", JNull), JStr("")),
                        repo_policy, envs, <<>>, <<>>, JBool(FALSE),
                        JBool(FALSE), 0))

\* build_policy_input: repo_environments is <<>> for None
build_policy_input(event_name, payload, repo_policy, repo_environments) ==
    LET envs == IF Len(repo_environments) > 0 THEN repo_environments
                ELSE DefaultEnvironments
    IN CASE event_name = "pull_request" ->
                build_for_pull_request(payload, repo_policy, envs)
         [] event_name = "push" -> build_for_push(payload, repo_policy, envs)
         [] OTHER -> build_for_other(payload, repo_policy, envs)

(***************************************************************************)
(* SpecInput: build_policy_input on pull_request, push and other events,   *)
(* with payloads whose fields are absent, null, or filled, and policy      *)
(* configurations with and without rules.                                  *)
(***************************************************************************)
Part(k, values) == {<<>>} \cup {(k :> v) : v \in values}

Review(state, login) ==
    JDict(("state" :> JStr(state)) @@ ("user" :> JDict("login" :> JStr(login))))

BaseRefs == {"main", "develop", "development", "dev", "feature"}

PullRequestDicts ==
    {JDict(("head" :> JDict("ref" :> JStr("feature"))) @@ b @@ r) :
        b \in Part("base", {JDict("ref" :> JStr(x)) : x \in BaseRefs}),
        r \in Part("reviews",
                   {JNull,
                    JList(<<Review("COMMENTED", "b"), Review("APPROVED", "a")>>)})}

PushedRefs ==
    {"refs/heads/main", "refs/heads/develop", "refs/heads/development",
     "refs/heads/dev", "refs/heads/feature"}

ReviewedPullRequest ==
    JDict(("head" :> JDict("ref" :> JStr("feature")))
          @@ ("base" :> JDict("ref" :> JStr("main")))
          @@ ("reviews" :> JList(<<Review("APPROVED", "a")>>)))

\* Payloads that vary what a pull_request event reads, and payloads that
\* vary what a push reads while carrying what a pull_request would
Payloads ==
    {JDict(p @@ c @@ s @@ n) :
        p \in Part("pull_request", {JNull} \cup PullRequestDicts),
        c \in Part("checks", {JNull, JDict("tests" :> JBool(TRUE)),
                              JDict("tests" :> JNull)}),
        s \in Part("signed_off", {JBool(TRUE)}),
        n \in Part("deployments_today", {JNum(3), JStr("many"), JNull})}
    \cup
    {JDict(p @@ r @@ c @@ s @@ n @@ m) :
        p \in Part("pull_request", {ReviewedPullRequest}),
        r \in Part("ref", {JStr(x) : x \in PushedRefs}),
        c \in Part("checks", {JDict("tests" :> JBool(TRUE))}),
        s \in Part("signed_off", {JBool(TRUE)}),
        n \in Part("deployments_today", {JNum(3)}),
        m \in Part("commits", {JList(<<JDict("message" :> JStr("m"))>>)})}

RepoPolicies ==
    {EmptyDict,
     JDict("policy" :> JNull),
     JDict("policy" :> JDict("environments" :>
         JDict("production" :> JDict("rules" :>
             JDict("ticket_pattern" :> JStr("T-[0-9]+"))))))}

EventNames == {"pull_request", "push", "workflow_dispatch"}

InitInput ==
    /\ arg \in [event_name : EventNames, payload : Payloads,
                repo_policy : RepoPolicies,
                repo_environments : {<<>>, <<"qa">>}]
    /\ ret = NoCall
    /\ engines = <<>>
    /\ disk = {}
    /\ frame = NoCall

BuildPolicyInput ==
    /\ ret' = [op |-> "build_policy_input",
               out |-> build_policy_input(arg.event_name, arg.payload,
                                          arg.repo_policy, arg.repo_environments)]
    /\ UNCHANGED <<engines, disk, frame, arg>>

NextInput == BuildPolicyInput

SpecInput == InitInput /\ [][NextInput]_vars

\* The ref the environment of an event is read from, "" when it has none
DecidingRef(a) ==
    CASE a.event_name = "pull_request" ->
             IF /\ HasKey(a.payload, "pull_request")
                /\ IsDict(a.payload.v["pull_request"])
                /\ HasKey(a.payload.v["pull_request"], "base")
             THEN a.payload.v["pull_request"].v["base"].v["ref"].v ELSE ""
      [] a.event_name = "push" ->
             IF HasKey(a.payload, "ref") THEN a.payload.v["ref"].v ELSE ""
      [] OTHER -> ""

ExpectedEnvironment(a) ==
    LET ref == DecidingRef(a) IN
    CASE a.event_name = "pull_request" ->
             IF ref = "main" THEN "production"
             ELSE IF ref \in {"develop", "development", "dev"} THEN "staging"
             ELSE "development"
      [] a.event_name = "push" ->
             IF ref = "refs/heads/main" THEN "production"
             ELSE IF ref \in {"refs/heads/develop", "refs/heads/development",
                              "refs/heads/dev"} THEN "staging"
             ELSE "development"
      [] OTHER -> "production"

\* The document of a call that returned has the environment of its event
\* and, for a push or another event, the minimal workflow_meta
DocumentAsDescribed ==
    LET doc == ret.out.val IN
    /\ doc.environment = ExpectedEnvironment(arg)
    /\ doc.repo_policy = arg.repo_policy
    /\ doc.workflow_meta.checks.tests \in BOOLEAN
    /\ doc.workflow_meta.signed_off \in BOOLEAN
    /\ doc.workflow_meta.deployments_today \in Int
    /\ arg.event_name # "pull_request" =>
          /\ doc.workflow_meta.approvers = <<>>
          /\ ~doc.workflow_meta.checks.tests
          /\ ~doc.workflow_meta.signed_off
          /\ doc.workflow_meta.deployments_today = 0

\* C26: for every event name and payload build_policy_input returns a
\* document with environment, ref, repo_policy, repo_environments and
\* workflow_meta, whose environment is production, staging or development
\* by the base ref of a pull_request or the ref of a push and production
\* for any other event, and whose workflow_meta is minimal for a push and
\* for any other event.
C26_InputDocumentBuilt ==
    ret.op = "build_policy_input" =>
        /\ ret.out.kind = "ok"
        /\ DocumentAsDescribed

====
